---- MODULE Spec2Model ----
(***************************************************************************)
(* chip8rs: the CHIP-8 instruction execution engine.                       *)
(*                                                                         *)
(* State: the fields of Emulator (memory, pc, stack, register,             *)
(* index_register, timers, interpreter, keypad, sound).  One action per    *)
(* arm of Emulator::execute; every such action is a whole Emulator::run    *)
(* step: fetch the word at pc, increment pc, decode, run the handler of    *)
(* process.rs.  Emulator::beep is the tick of the sound timer, and the     *)
(* keypad changes between steps.                                           *)
(* A program (Rom) is chosen at Init and loaded by Ram::load.              *)
(***************************************************************************)
EXTENDS Integers, Sequences, FiniteSets, TLC

VARIABLES interpreter, memory, pc, stack, register, index_register,
          delay_timer, sound_timer, keypad, sound, result, prev, prev2,
          call_history

vars == <<interpreter, memory, pc, stack, register, index_register,
          delay_timer, sound_timer, keypad, sound, result, prev, prev2,
          call_history>>

-----------------------------------------------------------------------------
(* constants.rs, main.rs *)

TOTAL_RAM == 4096

MEMORY_OFFSET == 512

DISPLAY_RANGE == <<3840, 4095>>

RAM_RANGE == <<MEMORY_OFFSET, DISPLAY_RANGE[1]>>

AVAILABLE_RAM == RAM_RANGE[2] - RAM_RANGE[1]

SCREEN_WIDTH == 64

SCREEN_HEIGHT == 32

window_size == <<SCREEN_WIDTH, SCREEN_HEIGHT>>

Interpreter == {"CosmacVIP", "Chip48", "SuperChip"}

FONT ==
  << 240, 144, 144, 144, 240,   32,  96,  32,  32, 112,
     240,  16, 240, 128, 240,  240,  16, 240,  16, 240,
     144, 144, 240,  16,  16,  240, 128, 240,  16, 240,
     240, 128, 240, 144, 240,  240,  16,  32,  64,  64,
     240, 144, 240, 144, 240,  240, 144, 240,  16, 240,
     240, 144, 240, 144, 144,  224, 144, 224, 144, 224,
     240, 128, 128, 128, 240,  224, 144, 144, 144, 224,
     240, 128, 240, 128, 240,  240, 128, 240, 128, 128 >>

-----------------------------------------------------------------------------
(* bit arithmetic on machine words *)

RECURSIVE Pow2(_)
Pow2(k) == IF k = 0 THEN 1 ELSE 2 * Pow2(k - 1)

\* the widths of u8 and u16
U8 == Pow2(8)

U16 == Pow2(16)

\* (b >> p) & 1
Bit(b, p) == (b \div Pow2(p)) % 2

\* b ^ (1 << p) on a byte
FlipBit(b, p) == IF Bit(b, p) = 1 THEN b - Pow2(p) ELSE b + Pow2(p)

\* a | b, a & b and a ^ b on bytes, bit by bit from bit k up
RECURSIVE BitOr(_, _, _)
BitOr(a, b, k) ==
  IF k > 7 THEN 0
  ELSE (IF Bit(a, k) + Bit(b, k) > 0 THEN Pow2(k) ELSE 0) + BitOr(a, b, k + 1)

RECURSIVE BitAnd(_, _, _)
BitAnd(a, b, k) ==
  IF k > 7 THEN 0
  ELSE (IF Bit(a, k) + Bit(b, k) = 2 THEN Pow2(k) ELSE 0) + BitAnd(a, b, k + 1)

RECURSIVE BitXor(_, _, _)
BitXor(a, b, k) ==
  IF k > 7 THEN 0
  ELSE (IF Bit(a, k) + Bit(b, k) = 1 THEN Pow2(k) ELSE 0) + BitXor(a, b, k + 1)

-----------------------------------------------------------------------------
(* register names: format!("V{:X}", i) and u16::from_str_radix(&x[1..], 16) *)

HexUpper == <<"0", "1", "2", "3", "4", "5", "6", "7",
              "8", "9", "A", "B", "C", "D", "E", "F">>

HexLower == <<"0", "1", "2", "3", "4", "5", "6", "7",
              "8", "9", "a", "b", "c", "d", "e", "f">>

RECURSIVE FormatHex(_)
FormatHex(i) ==
  IF i < 16 THEN <<HexUpper[i + 1]>>
  ELSE FormatHex(i \div 16) \o <<HexUpper[(i % 16) + 1]>>

\* format!("V{:X}", i)
RegName(i) == <<"V">> \o FormatHex(i)

\* char::to_digit(16): -1 when c is no hex digit
HexDigit(c) ==
  IF \E k \in 1..16 : HexUpper[k] = c
    THEN (CHOOSE k \in 1..16 : HexUpper[k] = c) - 1
    ELSE IF \E k \in 1..16 : HexLower[k] = c
      THEN (CHOOSE k \in 1..16 : HexLower[k] = c) - 1
      ELSE -1

RECURSIVE ParseHexFrom(_, _)
ParseHexFrom(s, acc) ==
  IF s = <<>> THEN acc
  ELSE IF HexDigit(Head(s)) < 0 \/ acc * 16 + HexDigit(Head(s)) >= U16 THEN -1
  ELSE ParseHexFrom(Tail(s), acc * 16 + HexDigit(Head(s)))

\* u16::from_str_radix(s, 16): -1 stands for Err(ParseIntError)
ParseHex(s) == IF s = <<>> THEN -1 ELSE ParseHexFrom(s, 0)

VF == <<"V", "F">>

RegNames == {RegName(i) : i \in 0..15}

\* Register::new
NewRegister == [k \in RegNames |-> 0]

-----------------------------------------------------------------------------
(* Ram *)

\* a Rom is a sequence of bytes; programs are written as 16-bit words
RECURSIVE WordsToBytes(_)
WordsToBytes(ws) ==
  IF ws = <<>> THEN <<>>
  ELSE <<Head(ws) \div 256, Head(ws) % 256>> \o WordsToBytes(Tail(ws))

\* Ram::load with From<Rom>: zeroes, the rom at MEMORY_OFFSET, the font at 0
RamLoad(rom, font) ==
  [a \in 0..(TOTAL_RAM - 1) |->
     IF a < Len(font) THEN font[a + 1]
     ELSE IF a >= MEMORY_OFFSET /\ a < MEMORY_OFFSET + Len(rom)
       THEN rom[a - MEMORY_OFFSET + 1]
       ELSE 0]

\* Ram::get / Ram::get_mut succeed exactly on these addresses
ValidAddress(idx) == idx >= 0 /\ idx < TOTAL_RAM

\* Ram::op_code: (high << 8) | low
OpCodeAt(mem, p) == mem[p] * 256 + mem[p + 1]

\* Ram::op_code as a Result: memory.get(pc) and memory.get(pc + 1), each
\* ok_or(RamError::InvalidAddress(..))
Ram_op_code(mem, p) ==
  IF ~ValidAddress(p) THEN [res |-> "InvalidAddress", address |-> p]
  ELSE IF ~ValidAddress(p + 1) THEN [res |-> "InvalidAddress", address |-> p + 1]
  ELSE [res |-> "Ok", value |-> OpCodeAt(mem, p)]

\* a get that wraps the address into memory
Ram_get_wrapping(mem, idx) ==
  [res |-> "Ok", value |-> mem[idx % TOTAL_RAM]]

\* Ram::get: memory.get(idx).ok_or(RamError::InvalidAddress(idx)).copied()
Ram_get(mem, idx) ==
  IF ValidAddress(idx) THEN [res |-> "Ok", value |-> mem[idx]]
  ELSE [res |-> "InvalidAddress", address |-> idx]

\* Ram::get_mut: memory.get_mut(idx).ok_or(RamError::InvalidAddress(idx)); the
\* caller writes through the reference
Ram_get_mut(mem, idx) ==
  IF ValidAddress(idx) THEN [res |-> "Ok", value |-> mem[idx]]
  ELSE [res |-> "InvalidAddress", address |-> idx]

\* Ram::reset_vram: memory[DISPLAY_RANGE.0..DISPLAY_RANGE.1].fill(0)
reset_vram(mem) ==
  [a \in DOMAIN mem |-> IF a >= DISPLAY_RANGE[1] /\ a < DISPLAY_RANGE[2] THEN 0 ELSE mem[a]]

-----------------------------------------------------------------------------
(* Rom *)

\* a loader with the whole memory behind the offset as its capacity
Rom_load_to_end_of_memory(data) ==
  IF Len(data) > TOTAL_RAM - MEMORY_OFFSET
    THEN [res |-> "OutOfMemory", rom_size |-> Len(data),
          ram_size |-> TOTAL_RAM - MEMORY_OFFSET]
    ELSE [res |-> "Ok", data |-> data]

\* Rom::load on the bytes read from the file: Err(RomError::OutOfMemory
\* { rom_size, ram_size }) if data.len() > AVAILABLE_RAM, else Ok(Rom { data })
Rom_load(data) ==
  IF Len(data) > AVAILABLE_RAM
    THEN [res |-> "OutOfMemory", rom_size |-> Len(data), ram_size |-> AVAILABLE_RAM]
    ELSE [res |-> "Ok", data |-> data]

-----------------------------------------------------------------------------
(* ProgramCounter *)

\* an increment by one byte
pc_increment_one_byte(p) == (p + 1) % TOTAL_RAM

\* self.0 += 2; self.0 %= RAM_SIZE
pc_increment(p) == (p + 2) % TOTAL_RAM

\* self.0 -= 2 on a usize: below 2 a release build wraps to usize::MAX - 1 or
\* usize::MAX, which no memory has; these read -2 and -1 here
pc_decrement(p) == p - 2

\* a debug build panics on integer overflow, a release build wraps
Build == {"debug", "release"}

-----------------------------------------------------------------------------
(* KeyPad and Sound: what the engine asks of its collaborators *)

\* the answers of the keypad: the code get_key_released() returns (<<>> is
\* None, <<k>> is Some(k)) and the codes is_key_pressed(code) is true of
NoKeys == [released |-> <<>>, held |-> {}]

\* keypad.is_key_pressed(code), code a u8
is_key_pressed(kp, code) == code \in kp.held

\* the Sound is either looping ("playing") or silent ("stopped")
play_sound(snd) == "playing"

stop_sound(snd) == "stopped"

-----------------------------------------------------------------------------
(* Emulator::run decode *)

\* a decode formatting the register names with "V{:x}"
Decode_lowercase_names(op_code) ==
  [ op_code     |-> op_code,
    instruction |-> (op_code \div 4096) * 4096,
    x           |-> <<"V", HexLower[((op_code \div 256) % 16) + 1]>>,
    y           |-> <<"V", HexLower[((op_code \div 16) % 16) + 1]>>,
    n           |-> op_code % 16,
    nn          |-> op_code % 256,
    nnn         |-> op_code % 4096 ]

\* a decode taking y from the low nibble
Decode_y_from_n(op_code) ==
  [ op_code     |-> op_code,
    instruction |-> (op_code \div 4096) * 4096,
    x           |-> RegName((op_code \div 256) % 16),
    y           |-> RegName(op_code % 16),
    n           |-> op_code % 16,
    nn          |-> op_code % 256,
    nnn         |-> op_code % 4096 ]

\* InstructionData: op_code & 0xF000, (op_code & 0x0F00) >> 8, ...
Decode(op_code) ==
  [ op_code     |-> op_code,
    instruction |-> (op_code \div 4096) * 4096,
    x           |-> RegName((op_code \div 256) % 16),
    y           |-> RegName((op_code \div 16) % 16),
    n           |-> op_code % 16,
    nn          |-> op_code % 256,
    nnn         |-> op_code % 4096 ]

\* the arm of the match in Emulator::execute that takes the instruction
Arm(d) ==
  IF d.op_code = 0 THEN "op_0000"
  ELSE IF d.op_code = 224 THEN "op_00E0"
  ELSE IF d.op_code = 238 THEN "op_00EE"
  ELSE IF d.instruction = 4096 THEN "op_1NNN"
  ELSE IF d.instruction = 8192 THEN "op_2NNN"
  ELSE IF d.instruction = 12288 THEN "op_3XNN"
  ELSE IF d.instruction = 16384 THEN "op_4XNN"
  ELSE IF d.instruction = 20480 THEN "op_5XNN"
  ELSE IF d.instruction = 24576 THEN "op_6XNN"
  ELSE IF d.instruction = 28672 THEN "op_7XNN"
  ELSE IF d.instruction = 32768 /\ d.n = 0 THEN "op_8XY0"
  ELSE IF d.instruction = 32768 /\ d.n = 1 THEN "op_8XY1"
  ELSE IF d.instruction = 32768 /\ d.n = 2 THEN "op_8XY2"
  ELSE IF d.instruction = 32768 /\ d.n = 3 THEN "op_8XY3"
  ELSE IF d.instruction = 32768 /\ d.n = 4 THEN "op_8XY4"
  ELSE IF d.instruction = 32768 /\ d.n = 5 THEN "op_8XY5"
  ELSE IF d.instruction = 32768 /\ d.n = 6 THEN "op_8XY6"
  ELSE IF d.instruction = 32768 /\ d.n = 7 THEN "op_8XY7"
  ELSE IF d.instruction = 32768 /\ d.n = 14 THEN "op_8XYE"
  ELSE IF d.instruction = 36864 THEN "op_9XY0"
  ELSE IF d.instruction = 40960 THEN "op_ANNN"
  ELSE IF d.instruction = 45056 THEN "op_BNNN"
  ELSE IF d.instruction = 49152 THEN "op_CXNN"
  ELSE IF d.instruction = 53248 THEN "DXYN"
  ELSE IF d.instruction = 61440 /\ d.n = 7 THEN "op_FX07"
  ELSE IF d.instruction = 61440 /\ d.nn = 15 THEN "op_FX15"
  ELSE IF d.instruction = 61440 /\ d.nn = 30 THEN "op_FX1E"
  ELSE IF d.instruction = 61440 /\ d.nn = 10 THEN "op_FX0A"
  ELSE IF d.instruction = 61440 /\ d.nn = 24 THEN "op_FX18"
  ELSE IF d.instruction = 61440 /\ d.nn = 41 THEN "op_FX29"
  ELSE IF d.instruction = 61440 /\ d.nn = 51 THEN "op_FX33"
  ELSE IF d.instruction = 61440 /\ d.nn = 85 THEN "op_FX55"
  ELSE IF d.instruction = 61440 /\ d.nn = 101 THEN "op_FX65"
  ELSE "not_implemented"

-----------------------------------------------------------------------------
(* process.rs: the handlers.  Each returns the parts of the machine it may  *)
(* write and res, the Result of the call ("Ok" or the ProcessingError).     *)

\* op_1NNN dropping the low bit of the address
op_1NNN_aligned(nnn) == (nnn \div 2) * 2

\* pc.jump(nnn)
op_1NNN(nnn) == nnn

\* op_00E0: ram.reset_vram() (the rest clears the renderer's surface)
op_00E0(mem) == reset_vram(mem)

\* op_00EE taking the oldest address of the stack
op_00EE_oldest_first(p, stk) ==
  IF stk = <<>> THEN [pc |-> p, stack |-> stk, res |-> "JumpOutOfBounds"]
  ELSE [pc |-> stk[1], stack |-> Tail(stk), res |-> "Ok"]

\* op_00EE yielding address 0 on an empty stack
op_00EE_silent_zero(p, stk) ==
  IF stk = <<>> THEN [pc |-> 0, stack |-> stk, res |-> "Ok"]
  ELSE [pc |-> stk[Len(stk)], stack |-> SubSeq(stk, 1, Len(stk) - 1), res |-> "Ok"]

\* pc.jump(stack.pop()?): the pop fails before the jump
op_00EE(p, stk) ==
  IF stk = <<>> THEN [pc |-> p, stack |-> stk, res |-> "JumpOutOfBounds"]
  ELSE [pc |-> stk[Len(stk)], stack |-> SubSeq(stk, 1, Len(stk) - 1), res |-> "Ok"]

\* op_2NNN pushing the address of the call itself
op_2NNN_push_call_address(stk, p, nnn) ==
  [stack |-> Append(stk, (p - 2) % U16), pc |-> nnn]

\* stack.push(pc as u16), pc.jump(nnn); pc is already past the call
op_2NNN(stk, p, nnn) ==
  [stack |-> Append(stk, p % U16), pc |-> nnn]

\* op_3XNN skipping when Vx differs from NN
op_3XNN_inverted(reg, x, nn, p) ==
  [pc |-> IF reg[x] # nn THEN pc_increment(p) ELSE p, res |-> "Ok"]

\* if register.get(x)? == nn { pc.increment() }; p is the pc past the instruction
op_3XNN(reg, x, nn, p) ==
  IF x \notin DOMAIN reg THEN [pc |-> p, res |-> "RegisterError"]
  ELSE [pc |-> IF reg[x] = nn THEN pc_increment(p) ELSE p, res |-> "Ok"]

\* if register.get(x)? != nn { pc.increment() }
op_4XNN(reg, x, nn, p) ==
  IF x \notin DOMAIN reg THEN [pc |-> p, res |-> "RegisterError"]
  ELSE [pc |-> IF reg[x] # nn THEN pc_increment(p) ELSE p, res |-> "Ok"]

\* Register::cmp_registers: Ok(self.get(x)? == self.get(y)?)
cmp_registers(reg, x, y) == reg[x] = reg[y]

\* if register.cmp_registers(x, y)? { pc.increment() }
op_5XNN(reg, x, y, p) ==
  IF x \notin DOMAIN reg \/ y \notin DOMAIN reg THEN [pc |-> p, res |-> "RegisterError"]
  ELSE [pc |-> IF cmp_registers(reg, x, y) THEN pc_increment(p) ELSE p, res |-> "Ok"]

\* if !register.cmp_registers(x, y)? { pc.increment() }
op_9XY0(reg, x, y, p) ==
  IF x \notin DOMAIN reg \/ y \notin DOMAIN reg THEN [pc |-> p, res |-> "RegisterError"]
  ELSE [pc |-> IF ~cmp_registers(reg, x, y) THEN pc_increment(p) ELSE p, res |-> "Ok"]

op_6XNN(reg, x, nn) ==
  IF x \notin DOMAIN reg THEN [register |-> reg, res |-> "RegisterError"]
  ELSE [register |-> [reg EXCEPT ![x] = nn], res |-> "Ok"]

\* register.set(x, register.get(x)?.wrapping_add(nn))
op_7XNN(reg, x, nn) ==
  IF x \notin DOMAIN reg THEN [register |-> reg, res |-> "RegisterError"]
  ELSE [register |-> [reg EXCEPT ![x] = (reg[x] + nn) % U8], res |-> "Ok"]

\* Register::set_x_y: y is read, then x is written
op_8XY0(reg, x, y) ==
  IF y \notin DOMAIN reg \/ x \notin DOMAIN reg
    THEN [register |-> reg, res |-> "RegisterError"]
  ELSE [register |-> [reg EXCEPT ![x] = reg[y]], res |-> "Ok"]

\* *register.get_mut(x)? |= register.get(y)?
op_8XY1(reg, x, y) ==
  IF x \notin DOMAIN reg \/ y \notin DOMAIN reg
    THEN [register |-> reg, res |-> "RegisterError"]
  ELSE [register |-> [reg EXCEPT ![x] = BitOr(reg[x], reg[y], 0)], res |-> "Ok"]

\* *register.get_mut(x)? &= register.get(y)?
op_8XY2(reg, x, y) ==
  IF x \notin DOMAIN reg \/ y \notin DOMAIN reg
    THEN [register |-> reg, res |-> "RegisterError"]
  ELSE [register |-> [reg EXCEPT ![x] = BitAnd(reg[x], reg[y], 0)], res |-> "Ok"]

\* *register.get_mut(x)? ^= register.get(y)?
op_8XY3(reg, x, y) ==
  IF x \notin DOMAIN reg \/ y \notin DOMAIN reg
    THEN [register |-> reg, res |-> "RegisterError"]
  ELSE [register |-> [reg EXCEPT ![x] = BitXor(reg[x], reg[y], 0)], res |-> "Ok"]

\* register.set(x, rand::random::<u8>() & nn); random is the byte drawn
op_CXNN(reg, x, nn, random) ==
  IF x \notin DOMAIN reg THEN [register |-> reg, res |-> "RegisterError"]
  ELSE [register |-> [reg EXCEPT ![x] = BitAnd(random, nn, 0)], res |-> "Ok"]

\* op_8XY4 writing the flag before the data result
op_8XY4_flag_first(reg, x, y) ==
  LET sum == reg[x] + reg[y]
      r1  == [reg EXCEPT ![VF] = IF sum >= U8 THEN 1 ELSE 0]
  IN [register |-> [r1 EXCEPT ![x] = sum % U8], res |-> "Ok"]

\* overflowing_add, then set(x, val), then set("VF", overflow)
op_8XY4(reg, x, y) ==
  IF x \notin DOMAIN reg \/ y \notin DOMAIN reg
    THEN [register |-> reg, res |-> "RegisterError"]
  ELSE LET sum      == reg[x] + reg[y]
           val      == sum % U8
           overflow == sum >= U8
           r1       == [reg EXCEPT ![x] = val]
       IN [register |-> [r1 EXCEPT ![VF] = IF overflow THEN 1 ELSE 0], res |-> "Ok"]

\* op_8XY5 storing the borrow instead of its negation
op_8XY5_borrow(reg, x, y) ==
  LET r1 == [reg EXCEPT ![x] = (reg[x] - reg[y] + U8) % U8]
  IN [register |-> [r1 EXCEPT ![VF] = IF reg[x] < reg[y] THEN 1 ELSE 0], res |-> "Ok"]

\* Vx.overflowing_sub(Vy), then set(x, val), then set("VF", !overflow)
op_8XY5(reg, x, y) ==
  IF x \notin DOMAIN reg \/ y \notin DOMAIN reg
    THEN [register |-> reg, res |-> "RegisterError"]
  ELSE LET val      == (reg[x] - reg[y] + U8) % U8
           overflow == reg[x] < reg[y]
           r1       == [reg EXCEPT ![x] = val]
       IN [register |-> [r1 EXCEPT ![VF] = IF ~overflow THEN 1 ELSE 0], res |-> "Ok"]

\* op_8XY6 that never copies Vy into Vx
op_8XY6_no_copy(interp, reg, x, y) ==
  LET r1 == [reg EXCEPT ![x] = reg[x] \div 2]
  IN [register |-> [r1 EXCEPT ![VF] = reg[x] % 2], res |-> "Ok"]

\* CosmacVIP: Vx = Vy first; then lsb = Vx & 1, Vx >>= 1, set("VF", lsb)
op_8XY6(interp, reg, x, y) ==
  IF x \notin DOMAIN reg \/ (interp = "CosmacVIP" /\ y \notin DOMAIN reg)
    THEN [register |-> reg, res |-> "RegisterError"]
  ELSE LET r0  == IF interp = "CosmacVIP" THEN [reg EXCEPT ![x] = reg[y]] ELSE reg
           lsb == r0[x] % 2
           r1  == [r0 EXCEPT ![x] = r0[x] \div 2]
       IN [register |-> [r1 EXCEPT ![VF] = lsb], res |-> "Ok"]

\* Vy.overflowing_sub(Vx), then set(x, val), then set("VF", !overflow)
op_8XY7(reg, x, y) ==
  IF x \notin DOMAIN reg \/ y \notin DOMAIN reg
    THEN [register |-> reg, res |-> "RegisterError"]
  ELSE LET val      == (reg[y] - reg[x] + U8) % U8
           overflow == reg[y] < reg[x]
           r1       == [reg EXCEPT ![x] = val]
       IN [register |-> [r1 EXCEPT ![VF] = IF ~overflow THEN 1 ELSE 0], res |-> "Ok"]

\* CosmacVIP: set_x_y(x, y) first; then msb = (Vx >> 7) & 1, Vx <<= 1 on a u8,
\* set("VF", msb)
op_8XYE(interp, reg, x, y) ==
  IF x \notin DOMAIN reg \/ (interp = "CosmacVIP" /\ y \notin DOMAIN reg)
    THEN [register |-> reg, res |-> "RegisterError"]
  ELSE LET r0  == IF interp = "CosmacVIP" THEN [reg EXCEPT ![x] = reg[y]] ELSE reg
           msb == Bit(r0[x], 7)
           r1  == [r0 EXCEPT ![x] = (r0[x] * 2) % U8]
       IN [register |-> [r1 EXCEPT ![VF] = msb], res |-> "Ok"]

op_ANNN(nnn) == nnn

\* columns are never skipped
ColumnClipped_never(screen_pos_x, ws) == FALSE

\* if screen_pos_x >= window_size.0 { continue }
ColumnClipped(screen_pos_x, ws) == screen_pos_x >= ws[1]

\* rows are never skipped
RowClipped_never(screen_pos_y, ws) == FALSE

\* if screen_pos_y >= window_size.1 { continue }
RowClipped(screen_pos_y, ws) == screen_pos_y >= ws[2]

\* the sprite read least significant bit first
SpriteBit_reversed(sprite, x) == Bit(sprite, 7 - x)

\* (sprite >> x) & 1, drawn at column start_x + (7 - x)
SpriteBit(sprite, x) == Bit(sprite, x)

\* (DISPLAY_RANGE.0 * 8) + (screen_pos_y * window_size.0 + screen_pos_x)
DisplayBitIdx(screen_pos_x, screen_pos_y, ws) ==
  DISPLAY_RANGE[1] * 8 + (screen_pos_y * ws[1] + screen_pos_x)

\* the flag keeps only the last pixel's outcome
Collide_last(bit_flipped_off, display_bit) == display_bit = 1

\* if display_bit == 1 { bit_flipped_off = true }
Collide(bit_flipped_off, display_bit) == bit_flipped_off \/ display_bit = 1

\* the pixel is set instead of toggled
TogglePixel_or(display_byte, display_bit_pos) ==
  IF Bit(display_byte, display_bit_pos) = 1 THEN display_byte
  ELSE display_byte + Pow2(display_bit_pos)

\* *display_byte ^= 1 << display_bit_pos
TogglePixel(display_byte, display_bit_pos) == FlipBit(display_byte, display_bit_pos)

\* the inner loop of DXYN, for x in 0..8, on st = [memory, bit_flipped_off, res]
RECURSIVE DrawBits(_, _, _, _, _, _)
DrawBits(st, sprite, start_x, screen_pos_y, ws, x) ==
  IF x >= 8 \/ st.res # "Ok" THEN st
  ELSE LET screen_pos_x == start_x + (7 - x)
       IN IF ColumnClipped(screen_pos_x, ws) \/ SpriteBit(sprite, x) = 0
            THEN DrawBits(st, sprite, start_x, screen_pos_y, ws, x + 1)
            ELSE LET display_bit_idx  == DisplayBitIdx(screen_pos_x, screen_pos_y, ws)
                     display_byte_idx == display_bit_idx \div 8
                     display_bit_pos  == display_bit_idx % 8
                 IN IF ~ValidAddress(display_byte_idx)
                      THEN [st EXCEPT !.res = "AddressOutOfBounds"]
                      ELSE DrawBits(
                             [ memory |-> [st.memory EXCEPT ![display_byte_idx] =
                                             TogglePixel(@, display_bit_pos)],
                               bit_flipped_off |->
                                 Collide(st.bit_flipped_off,
                                         Bit(st.memory[display_byte_idx], display_bit_pos)),
                               res |-> "Ok" ],
                             sprite, start_x, screen_pos_y, ws, x + 1)

\* the outer loop of DXYN, for y_coord in 0..sprite_height; the sprite row is
\* read first, from the memory as the rows drawn so far left it
RECURSIVE DrawRows(_, _, _, _, _, _, _, _)
DrawRows(st, index, sprite_height, start_x, start_y, ws, y_coord, build) ==
  IF y_coord >= sprite_height \/ st.res # "Ok" THEN st
  ELSE IF index + y_coord >= U16 /\ build = "debug"
    THEN [st EXCEPT !.res = "ArithmeticOverflow"]
  ELSE IF ~ValidAddress((index + y_coord) % U16)
    THEN [st EXCEPT !.res = "AddressOutOfBounds"]
  ELSE LET sprite       == st.memory[(index + y_coord) % U16]
           screen_pos_y == start_y + y_coord
       IN IF RowClipped(screen_pos_y, ws)
            THEN DrawRows(st, index, sprite_height, start_x, start_y, ws, y_coord + 1,
                          build)
            ELSE DrawRows(DrawBits(st, sprite, start_x, screen_pos_y, ws, 0),
                          index, sprite_height, start_x, start_y, ws, y_coord + 1,
                          build)

\* DXYN: the origin is read, VF is zeroed, the rows are drawn, and VF receives
\* bit_flipped_off only when no access failed
DXYN(mem, reg, index, ws, instruction, build) ==
  IF instruction.x \notin DOMAIN reg \/ instruction.y \notin DOMAIN reg
    THEN [memory |-> mem, register |-> reg, res |-> "RegisterError"]
  ELSE LET start_x == reg[instruction.x] % ws[1]
           start_y == reg[instruction.y] % ws[2]
           reg0    == [reg EXCEPT ![VF] = 0]
           st      == DrawRows([memory |-> mem, bit_flipped_off |-> FALSE, res |-> "Ok"],
                               index, instruction.n, start_x, start_y, ws, 0, build)
       IN IF st.res # "Ok"
            THEN [memory |-> st.memory, register |-> reg0, res |-> st.res]
            ELSE [ memory   |-> st.memory,
                   register |-> [reg0 EXCEPT ![VF] = IF st.bit_flipped_off THEN 1 ELSE 0],
                   res      |-> "Ok" ]

\* the loop of op_FX33, for i in (0..3).rev(), on st = [memory, val, res]:
\* remainder = val % 10, val /= 10, *memory.get_mut(index_register + i)? = remainder
RECURSIVE BcdLoop(_, _, _, _)
BcdLoop(st, index, i, build) ==
  IF i < 0 \/ st.res # "Ok" THEN st
  ELSE IF index + i >= U16 /\ build = "debug"
    THEN [st EXCEPT !.res = "ArithmeticOverflow"]
  ELSE IF ~ValidAddress((index + i) % U16) THEN [st EXCEPT !.res = "AddressOutOfBounds"]
  ELSE BcdLoop([ memory |-> [st.memory EXCEPT ![(index + i) % U16] = st.val % 10],
                 val    |-> st.val \div 10,
                 res    |-> "Ok" ],
               index, i - 1, build)

\* op_FX33 writing the least significant digit first
op_FX33_reversed(reg, mem, x, index, build) ==
  [ memory |-> [a \in DOMAIN mem |->
                  IF a = index THEN reg[x] % 10
                  ELSE IF a = index + 1 THEN (reg[x] \div 10) % 10
                  ELSE IF a = index + 2 THEN reg[x] \div 100
                  ELSE mem[a]],
    res |-> "Ok" ]

op_FX33(reg, mem, x, index, build) ==
  IF x \notin DOMAIN reg THEN [memory |-> mem, res |-> "RegisterError"]
  ELSE LET st == BcdLoop([memory |-> mem, val |-> reg[x], res |-> "Ok"], index, 2, build)
       IN [memory |-> st.memory, res |-> st.res]

\* the loop of op_FX55, for i in 0..=range, on st = [memory, index_register,
\* res]: CosmacVIP adds i to the index register itself and stores there, the
\* other interpreters store at index_register + i
RECURSIVE StoreLoop(_, _, _, _, _, _)
StoreLoop(st, interp, reg, range, i, build) ==
  IF i > range \/ st.res # "Ok" THEN st
  ELSE IF st.index_register + i >= U16 /\ build = "debug"
    THEN [st EXCEPT !.res = "ArithmeticOverflow"]
  ELSE LET addr  == (st.index_register + i) % U16
           index == IF interp = "CosmacVIP" THEN addr ELSE st.index_register
       IN IF RegName(i) \notin DOMAIN reg
            THEN [st EXCEPT !.index_register = index, !.res = "RegisterError"]
          ELSE IF Ram_get_mut(st.memory, addr).res # "Ok"
            THEN [st EXCEPT !.index_register = index, !.res = "AddressOutOfBounds"]
          ELSE StoreLoop([ memory         |-> [st.memory EXCEPT ![addr] = reg[RegName(i)]],
                           index_register |-> index,
                           res            |-> "Ok" ],
                         interp, reg, range, i + 1, build)

op_FX55(interp, reg, mem, index, x, build) ==
  LET range == ParseHex(Tail(x))
      st    == [memory |-> mem, index_register |-> index, res |-> "Ok"]
  IN IF range < 0 THEN [st EXCEPT !.res = "HexParseError"]
     ELSE StoreLoop(st, interp, reg, range, 0, build)

\* a load reading index_register + i under every interpreter
op_FX65_plain(interp, reg, mem, index, x, build) ==
  LET range == ParseHex(Tail(x))
  IN [register |->
        [k \in DOMAIN reg |->
           IF \E i \in 0..range : k = RegName(i)
             THEN mem[(index + ParseHex(Tail(k))) % TOTAL_RAM]
             ELSE reg[k]],
      index_register |-> index,
      res |-> "Ok"]

\* the loop of op_FX65, on st = [register, index_register, res]
RECURSIVE LoadLoop(_, _, _, _, _, _)
LoadLoop(st, interp, mem, range, i, build) ==
  IF i > range \/ st.res # "Ok" THEN st
  ELSE IF st.index_register + i >= U16 /\ build = "debug"
    THEN [st EXCEPT !.res = "ArithmeticOverflow"]
  ELSE LET addr  == (st.index_register + i) % U16
           index == IF interp = "CosmacVIP" THEN addr ELSE st.index_register
       IN IF Ram_get(mem, addr).res # "Ok"
            THEN [st EXCEPT !.index_register = index, !.res = "AddressOutOfBounds"]
          ELSE IF RegName(i) \notin DOMAIN st.register
            THEN [st EXCEPT !.index_register = index, !.res = "RegisterError"]
          ELSE LoadLoop([ register       |-> [st.register EXCEPT ![RegName(i)] =
                                                Ram_get(mem, addr).value],
                          index_register |-> index,
                          res            |-> "Ok" ],
                        interp, mem, range, i + 1, build)

op_FX65(interp, reg, mem, index, x, build) ==
  LET range == ParseHex(Tail(x))
      st    == [register |-> reg, index_register |-> index, res |-> "Ok"]
  IN IF range < 0 THEN [st EXCEPT !.res = "HexParseError"]
     ELSE LoadLoop(st, interp, mem, range, 0, build)

\* op_BNNN adding V0 in every interpreter
op_BNNN_always_V0(interp, reg, x, nnn) ==
  [pc |-> nnn + reg[RegName(0)], jumped |-> TRUE, res |-> "Ok"]

\* pc.jump(nnn + V0 as u16) under CosmacVIP, pc.jump(nnn + Vx as u16) under
\* Chip48 and SuperChip; jumped is FALSE when the register read failed first
op_BNNN(interp, reg, x, nnn) ==
  LET k == IF interp = "CosmacVIP" THEN RegName(0) ELSE x
  IN IF k \notin DOMAIN reg THEN [pc |-> 0, jumped |-> FALSE, res |-> "RegisterError"]
     ELSE [pc |-> nnn + reg[k], jumped |-> TRUE, res |-> "Ok"]

\* register.set(x, *delay_timer)
op_FX07(reg, x, dt) ==
  IF x \notin DOMAIN reg THEN [register |-> reg, res |-> "RegisterError"]
  ELSE [register |-> [reg EXCEPT ![x] = dt], res |-> "Ok"]

\* *delay_timer = register.get(x)?
op_FX15(reg, x, dt) ==
  IF x \notin DOMAIN reg THEN [delay_timer |-> dt, res |-> "RegisterError"]
  ELSE [delay_timer |-> reg[x], res |-> "Ok"]

\* if *sound_timer == 0 { play_sound(..) }, then *sound_timer = register.get(x)?
op_FX18(reg, x, st, snd) ==
  LET played == IF st = 0 THEN play_sound(snd) ELSE snd
  IN IF x \notin DOMAIN reg
       THEN [sound_timer |-> st, sound |-> played, res |-> "RegisterError"]
       ELSE [sound_timer |-> reg[x], sound |-> played, res |-> "Ok"]

\* *index_register = index_register.wrapping_add(register.get(x)? as u16)
op_FX1E(reg, x, index) ==
  IF x \notin DOMAIN reg THEN [index_register |-> index, res |-> "RegisterError"]
  ELSE [index_register |-> (index + reg[x]) % U16, res |-> "Ok"]

\* *index_register = (font_char * 5) as u16: the product is a u8, which a
\* debug build checks and a release build wraps
op_FX29(reg, index, x, build) ==
  IF x \notin DOMAIN reg THEN [index_register |-> index, res |-> "RegisterError"]
  ELSE IF reg[x] * 5 >= U8 /\ build = "debug"
    THEN [index_register |-> index, res |-> "ArithmeticOverflow"]
  ELSE [index_register |-> (reg[x] * 5) % U8, res |-> "Ok"]

\* Some(key_hex) = keypad.get_key_released(): set(x, key_hex); None:
\* pc.decrement(), which overflows when the incremented pc wrapped to 0
op_FX0A(reg, p, kp, x, build) ==
  IF kp.released # <<>>
    THEN IF x \notin DOMAIN reg THEN [register |-> reg, pc |-> p, res |-> "RegisterError"]
         ELSE [register |-> [reg EXCEPT ![x] = kp.released[1]], pc |-> p, res |-> "Ok"]
  ELSE IF p < 2 /\ build = "debug"
    THEN [register |-> reg, pc |-> p, res |-> "ArithmeticOverflow"]
  ELSE [register |-> reg, pc |-> pc_decrement(p), res |-> "Ok"]

-----------------------------------------------------------------------------
(* Emulator::run: one step per arm of Emulator::execute *)

\* Ram::op_code reads memory[pc] and memory[pc + 1]
CanFetch == ValidAddress(pc) /\ ValidAddress(pc + 1)

Fetched == Decode(OpCodeAt(memory, pc))

\* the machine before a step, with the instruction the step executes
Snapshot ==
  [ op_code |-> Fetched.op_code, arm |-> Arm(Fetched), at |-> pc,
    x |-> Fetched.x, y |-> Fetched.y, n |-> Fetched.n, nn |-> Fetched.nn,
    nnn |-> Fetched.nnn,
    memory |-> memory, stack |-> stack, register |-> register,
    index_register |-> index_register,
    delay_timer |-> delay_timer, sound_timer |-> sound_timer,
    keypad |-> keypad, sound |-> sound, result |-> result ]

NoStep ==
  [ op_code |-> -1, arm |-> "none", at |-> -1,
    x |-> <<>>, y |-> <<>>, n |-> 0, nn |-> 0, nnn |-> 0,
    memory |-> <<>>, stack |-> <<>>, register |-> <<>>,
    index_register |-> 0,
    delay_timer |-> 0, sound_timer |-> 0,
    keypad |-> NoKeys, sound |-> "stopped", result |-> "Ok" ]

\* the calls and returns executed so far, kept beside the machine: the
\* addresses of the 2NNN instructions not yet returned from, the numbers of
\* calls and of returns that found a call to return from, the call the last
\* such return belongs to, and whether a return has found none
NoCalls ==
  [pending |-> <<>>, calls |-> 0, returns |-> 0, returned_from |-> -1,
   underflow |-> FALSE]

Tracked(arm) ==
  IF arm = "op_2NNN"
    THEN [call_history EXCEPT !.pending = Append(@, pc), !.calls = @ + 1]
  ELSE IF arm = "op_00EE"
    THEN IF call_history.pending = <<>>
           THEN [call_history EXCEPT !.underflow = TRUE]
           ELSE [call_history EXCEPT
                   !.pending = SubSeq(@, 1, Len(@) - 1),
                   !.returns = @ + 1,
                   !.returned_from = call_history.pending[Len(call_history.pending)]]
  ELSE call_history

\* fetch and dispatch to `arm`, and the record of the step; an overflow
\* panic ended the run
Dispatch(arm) ==
  /\ result # "ArithmeticOverflow"
  /\ CanFetch
  /\ Arm(Fetched) = arm
  /\ prev' = Snapshot
  /\ prev2' = prev
  /\ call_history' = Tracked(arm)
  /\ UNCHANGED <<interpreter, keypad>>

Run_1NNN ==
  /\ Dispatch("op_1NNN")
  /\ pc' = op_1NNN(Fetched.nnn)
  /\ result' = "Ok"
  /\ UNCHANGED <<memory, stack, register, index_register, delay_timer, sound_timer, sound>>

Run_00E0 ==
  /\ Dispatch("op_00E0")
  /\ pc' = pc_increment(pc)
  /\ memory' = op_00E0(memory)
  /\ result' = "Ok"
  /\ UNCHANGED <<stack, register, index_register, delay_timer, sound_timer, sound>>

Run_00EE ==
  /\ Dispatch("op_00EE")
  /\ LET r == op_00EE(pc_increment(pc), stack)
     IN pc' = r.pc /\ stack' = r.stack /\ result' = r.res
  /\ UNCHANGED <<memory, register, index_register, delay_timer, sound_timer, sound>>

Run_2NNN ==
  /\ Dispatch("op_2NNN")
  /\ LET r == op_2NNN(stack, pc_increment(pc), Fetched.nnn)
     IN pc' = r.pc /\ stack' = r.stack
  /\ result' = "Ok"
  /\ UNCHANGED <<memory, register, index_register, delay_timer, sound_timer, sound>>

Run_3XNN ==
  /\ Dispatch("op_3XNN")
  /\ LET r == op_3XNN(register, Fetched.x, Fetched.nn, pc_increment(pc))
     IN pc' = r.pc /\ result' = r.res
  /\ UNCHANGED <<memory, stack, register, index_register, delay_timer, sound_timer, sound>>

Run_4XNN ==
  /\ Dispatch("op_4XNN")
  /\ LET r == op_4XNN(register, Fetched.x, Fetched.nn, pc_increment(pc))
     IN pc' = r.pc /\ result' = r.res
  /\ UNCHANGED <<memory, stack, register, index_register, delay_timer, sound_timer, sound>>

Run_5XNN ==
  /\ Dispatch("op_5XNN")
  /\ LET r == op_5XNN(register, Fetched.x, Fetched.y, pc_increment(pc))
     IN pc' = r.pc /\ result' = r.res
  /\ UNCHANGED <<memory, stack, register, index_register, delay_timer, sound_timer, sound>>

Run_9XY0 ==
  /\ Dispatch("op_9XY0")
  /\ LET r == op_9XY0(register, Fetched.x, Fetched.y, pc_increment(pc))
     IN pc' = r.pc /\ result' = r.res
  /\ UNCHANGED <<memory, stack, register, index_register, delay_timer, sound_timer, sound>>

Run_6XNN ==
  /\ Dispatch("op_6XNN")
  /\ pc' = pc_increment(pc)
  /\ LET r == op_6XNN(register, Fetched.x, Fetched.nn)
     IN register' = r.register /\ result' = r.res
  /\ UNCHANGED <<memory, stack, index_register, delay_timer, sound_timer, sound>>

Run_7XNN ==
  /\ Dispatch("op_7XNN")
  /\ pc' = pc_increment(pc)
  /\ LET r == op_7XNN(register, Fetched.x, Fetched.nn)
     IN register' = r.register /\ result' = r.res
  /\ UNCHANGED <<memory, stack, index_register, delay_timer, sound_timer, sound>>

Run_8XY0 ==
  /\ Dispatch("op_8XY0")
  /\ pc' = pc_increment(pc)
  /\ LET r == op_8XY0(register, Fetched.x, Fetched.y)
     IN register' = r.register /\ result' = r.res
  /\ UNCHANGED <<memory, stack, index_register, delay_timer, sound_timer, sound>>

Run_8XY1 ==
  /\ Dispatch("op_8XY1")
  /\ pc' = pc_increment(pc)
  /\ LET r == op_8XY1(register, Fetched.x, Fetched.y)
     IN register' = r.register /\ result' = r.res
  /\ UNCHANGED <<memory, stack, index_register, delay_timer, sound_timer, sound>>

Run_8XY2 ==
  /\ Dispatch("op_8XY2")
  /\ pc' = pc_increment(pc)
  /\ LET r == op_8XY2(register, Fetched.x, Fetched.y)
     IN register' = r.register /\ result' = r.res
  /\ UNCHANGED <<memory, stack, index_register, delay_timer, sound_timer, sound>>

Run_8XY3 ==
  /\ Dispatch("op_8XY3")
  /\ pc' = pc_increment(pc)
  /\ LET r == op_8XY3(register, Fetched.x, Fetched.y)
     IN register' = r.register /\ result' = r.res
  /\ UNCHANGED <<memory, stack, index_register, delay_timer, sound_timer, sound>>

Run_8XY4 ==
  /\ Dispatch("op_8XY4")
  /\ pc' = pc_increment(pc)
  /\ LET r == op_8XY4(register, Fetched.x, Fetched.y)
     IN register' = r.register /\ result' = r.res
  /\ UNCHANGED <<memory, stack, index_register, delay_timer, sound_timer, sound>>

Run_8XY5 ==
  /\ Dispatch("op_8XY5")
  /\ pc' = pc_increment(pc)
  /\ LET r == op_8XY5(register, Fetched.x, Fetched.y)
     IN register' = r.register /\ result' = r.res
  /\ UNCHANGED <<memory, stack, index_register, delay_timer, sound_timer, sound>>

Run_8XY7 ==
  /\ Dispatch("op_8XY7")
  /\ pc' = pc_increment(pc)
  /\ LET r == op_8XY7(register, Fetched.x, Fetched.y)
     IN register' = r.register /\ result' = r.res
  /\ UNCHANGED <<memory, stack, index_register, delay_timer, sound_timer, sound>>

Run_8XY6 ==
  /\ Dispatch("op_8XY6")
  /\ pc' = pc_increment(pc)
  /\ LET r == op_8XY6(interpreter, register, Fetched.x, Fetched.y)
     IN register' = r.register /\ result' = r.res
  /\ UNCHANGED <<memory, stack, index_register, delay_timer, sound_timer, sound>>

Run_8XYE ==
  /\ Dispatch("op_8XYE")
  /\ pc' = pc_increment(pc)
  /\ LET r == op_8XYE(interpreter, register, Fetched.x, Fetched.y)
     IN register' = r.register /\ result' = r.res
  /\ UNCHANGED <<memory, stack, index_register, delay_timer, sound_timer, sound>>

Run_ANNN ==
  /\ Dispatch("op_ANNN")
  /\ pc' = pc_increment(pc)
  /\ index_register' = op_ANNN(Fetched.nnn)
  /\ result' = "Ok"
  /\ UNCHANGED <<memory, stack, register, delay_timer, sound_timer, sound>>

Run_BNNN ==
  /\ Dispatch("op_BNNN")
  /\ LET r == op_BNNN(interpreter, register, Fetched.x, Fetched.nnn)
     IN /\ pc' = (IF r.jumped THEN r.pc ELSE pc_increment(pc))
        /\ result' = r.res
  /\ UNCHANGED <<memory, stack, register, index_register, delay_timer, sound_timer, sound>>

Run_DXYN ==
  /\ Dispatch("DXYN")
  /\ pc' = pc_increment(pc)
  /\ \E build \in Build :
       LET r == DXYN(memory, register, index_register, window_size, Fetched, build)
       IN memory' = r.memory /\ register' = r.register /\ result' = r.res
  /\ UNCHANGED <<stack, index_register, delay_timer, sound_timer, sound>>

Run_FX07 ==
  /\ Dispatch("op_FX07")
  /\ pc' = pc_increment(pc)
  /\ LET r == op_FX07(register, Fetched.x, delay_timer)
     IN register' = r.register /\ result' = r.res
  /\ UNCHANGED <<memory, stack, index_register, delay_timer, sound_timer, sound>>

Run_FX15 ==
  /\ Dispatch("op_FX15")
  /\ pc' = pc_increment(pc)
  /\ LET r == op_FX15(register, Fetched.x, delay_timer)
     IN delay_timer' = r.delay_timer /\ result' = r.res
  /\ UNCHANGED <<memory, stack, register, index_register, sound_timer, sound>>

Run_FX18 ==
  /\ Dispatch("op_FX18")
  /\ pc' = pc_increment(pc)
  /\ LET r == op_FX18(register, Fetched.x, sound_timer, sound)
     IN sound_timer' = r.sound_timer /\ sound' = r.sound /\ result' = r.res
  /\ UNCHANGED <<memory, stack, register, index_register, delay_timer>>

\* the bytes rand::random::<u8>() is taken from here
RandPool == {0, 90, 255}

Run_CXNN ==
  /\ Dispatch("op_CXNN")
  /\ pc' = pc_increment(pc)
  /\ \E random \in RandPool :
       LET r == op_CXNN(register, Fetched.x, Fetched.nn, random)
       IN register' = r.register /\ result' = r.res
  /\ UNCHANGED <<memory, stack, index_register, delay_timer, sound_timer, sound>>

Run_FX1E ==
  /\ Dispatch("op_FX1E")
  /\ pc' = pc_increment(pc)
  /\ LET r == op_FX1E(register, Fetched.x, index_register)
     IN index_register' = r.index_register /\ result' = r.res
  /\ UNCHANGED <<memory, stack, register, delay_timer, sound_timer, sound>>

Run_FX29 ==
  /\ Dispatch("op_FX29")
  /\ pc' = pc_increment(pc)
  /\ \E build \in Build :
       LET r == op_FX29(register, index_register, Fetched.x, build)
       IN index_register' = r.index_register /\ result' = r.res
  /\ UNCHANGED <<memory, stack, register, delay_timer, sound_timer, sound>>

Run_FX0A ==
  /\ Dispatch("op_FX0A")
  /\ \E build \in Build :
       LET r == op_FX0A(register, pc_increment(pc), keypad, Fetched.x, build)
       IN register' = r.register /\ pc' = r.pc /\ result' = r.res
  /\ UNCHANGED <<memory, stack, index_register, delay_timer, sound_timer, sound>>

Run_FX33 ==
  /\ Dispatch("op_FX33")
  /\ pc' = pc_increment(pc)
  /\ \E build \in Build :
       LET r == op_FX33(register, memory, Fetched.x, index_register, build)
       IN memory' = r.memory /\ result' = r.res
  /\ UNCHANGED <<stack, register, index_register, delay_timer, sound_timer, sound>>

Run_FX55 ==
  /\ Dispatch("op_FX55")
  /\ pc' = pc_increment(pc)
  /\ \E build \in Build :
       LET r == op_FX55(interpreter, register, memory, index_register, Fetched.x, build)
       IN memory' = r.memory /\ index_register' = r.index_register /\ result' = r.res
  /\ UNCHANGED <<stack, register, delay_timer, sound_timer, sound>>

Run_FX65 ==
  /\ Dispatch("op_FX65")
  /\ pc' = pc_increment(pc)
  /\ \E build \in Build :
       LET r == op_FX65(interpreter, register, memory, index_register, Fetched.x, build)
       IN register' = r.register /\ index_register' = r.index_register /\ result' = r.res
  /\ UNCHANGED <<memory, stack, delay_timer, sound_timer, sound>>

\* the arm `_`: println!("Instruction not implemented"), after the increment
Run_not_implemented ==
  /\ Dispatch("not_implemented")
  /\ pc' = pc_increment(pc)
  /\ result' = "Ok"
  /\ UNCHANGED <<memory, stack, register, index_register, delay_timer, sound_timer, sound>>

\* the record of a fetch that failed, with the address of the error
FetchErrorSnapshot ==
  [ op_code |-> -1, arm |-> "InvalidAddress", at |-> pc,
    address |-> Ram_op_code(memory, pc).address,
    x |-> <<>>, y |-> <<>>, n |-> 0, nn |-> 0, nnn |-> 0,
    memory |-> memory, stack |-> stack, register |-> register,
    index_register |-> index_register,
    delay_timer |-> delay_timer, sound_timer |-> sound_timer,
    keypad |-> keypad, sound |-> sound, result |-> result ]

\* Emulator::run when Ram::op_code returns Err: no instruction is decoded or
\* executed
Run_InvalidAddress ==
  /\ result # "ArithmeticOverflow"
  /\ Ram_op_code(memory, pc).res = "InvalidAddress"
  /\ result' = "InvalidAddress"
  /\ prev' = FetchErrorSnapshot
  /\ prev2' = prev
  /\ UNCHANGED <<call_history, interpreter, memory, pc, stack, register, index_register,
                 delay_timer, sound_timer, keypad, sound>>

\* the record of a load: the bytes offered and what Rom::load returned
LoadSnapshot(data) ==
  [data |-> data, loaded |-> Rom_load(data)] @@ [NoStep EXCEPT !.arm = "Rom::load"]

\* Rom::load, then Ram::load on an accepted Rom; a rejected one leaves no
\* machine
Load(data) ==
  /\ memory = <<>>
  /\ result = "Ok"
  /\ IF Rom_load(data).res = "Ok"
       THEN memory' = RamLoad(Rom_load(data).data, FONT) /\ result' = "Ok"
       ELSE memory' = memory /\ result' = Rom_load(data).res
  /\ prev' = LoadSnapshot(data)
  /\ prev2' = prev
  /\ UNCHANGED <<call_history, interpreter, pc, stack, register, index_register,
                 delay_timer, sound_timer, keypad, sound>>

\* the first half of Emulator::run on its own: fetch the word at pc, increment
\* pc, build the InstructionData (recorded in prev); execute is left out
FetchDecode ==
  /\ CanFetch
  /\ prev' = Snapshot
  /\ prev2' = prev
  /\ pc' = pc_increment(pc)
  /\ UNCHANGED <<call_history, interpreter, memory, stack, register, index_register,
                 delay_timer, sound_timer, keypad, sound, result>>

-----------------------------------------------------------------------------
(* Emulator::beep, the tick of the sound timer *)

\* a tick that wraps below zero
beep_timer_wrapping(st) == (st - 1) % U8

\* if self.sound_timer > 0 { self.sound_timer -= 1 }
beep_timer(st) == IF st > 0 THEN st - 1 ELSE st

\* a tick that never stops the tone
beep_sound_never_stops(st, snd) == snd

\* else { stop_sound(&self.sound) }
beep_sound(st, snd) == IF st > 0 THEN snd ELSE stop_sound(snd)

\* the machine before a tick
TickSnapshot ==
  [ NoStep EXCEPT !.arm = "beep", !.memory = memory, !.stack = stack,
                  !.register = register, !.index_register = index_register,
                  !.delay_timer = delay_timer, !.sound_timer = sound_timer,
                  !.keypad = keypad, !.sound = sound, !.result = result ]

beep ==
  /\ result # "ArithmeticOverflow"
  /\ sound_timer' = beep_timer(sound_timer)
  /\ sound' = beep_sound(sound_timer, sound)
  /\ prev' = TickSnapshot
  /\ prev2' = prev
  /\ UNCHANGED <<call_history, interpreter, memory, pc, stack, register, index_register,
                 delay_timer, keypad, result>>

-----------------------------------------------------------------------------
(* the keypad between two steps *)

\* the release events and the sets of held keys the keypad reports
ReleasedPool == {<<>>, <<7>>, <<15>>}

HeldPool == {{}, {1, 15}}

KeyPadStates == [released : ReleasedPool, held : HeldPool]

\* keys go down and up between two steps of the engine
KeyPadPoll ==
  /\ keypad' \in KeyPadStates
  /\ keypad' # keypad
  /\ UNCHANGED <<call_history, interpreter, memory, pc, stack, register, index_register,
                 delay_timer, sound_timer, sound, result, prev, prev2>>

-----------------------------------------------------------------------------
(* Emulator::start on a program of a given family *)

\* the word with nibbles a b c d
W(a, b, c, d) == a * 4096 + b * 256 + c * 16 + d

\* 1NNN to itself: the program stops here
Halt(k) == W(1, 0, 0, 0) + MEMORY_OFFSET + 2 * k

Start(programs, interpreters) ==
  /\ interpreter \in interpreters
  /\ \E rom \in programs : memory = RamLoad(rom, FONT)
  /\ pc = MEMORY_OFFSET
  /\ stack = <<>>
  /\ register = NewRegister
  /\ index_register = 0
  /\ delay_timer = 0
  /\ sound_timer = 0
  /\ keypad = NoKeys
  /\ sound = "stopped"
  /\ result = "Ok"
  /\ prev = NoStep
  /\ prev2 = NoStep
  /\ call_history = NoCalls

\* operand registers and byte values of the arithmetic programs
RegPool == {0, 1, 15}

BytePool == {0, 1, 2, 127, 128, 254, 255}

\* set Vx, set Vy, then one of 8XY4, 8XY5, 8XY7
AluPrograms ==
  { WordsToBytes(<< W(6, x, a \div 16, a % 16), W(6, y, b \div 16, b % 16),
                    W(8, x, y, k), Halt(3) >>) :
      <<x, y, a, b, k>> \in RegPool \X RegPool \X BytePool \X BytePool \X {4, 5, 7} }

InitAlu == Start(AluPrograms, {"SuperChip"})

NextAlu == Run_1NNN \/ Run_6XNN \/ Run_8XY4 \/ Run_8XY5 \/ Run_8XY7

SpecAlu == InitAlu /\ [][NextAlu]_vars

-----------------------------------------------------------------------------
(* call and return programs *)

MaxLead == 2

MaxPad == 3

MaxDepth == 3

RECURSIVE Zeros(_)
Zeros(k) == IF k = 0 THEN <<>> ELSE <<0>> \o Zeros(k - 1)

RECURSIVE LeadIn(_)
LeadIn(k) == IF k = 0 THEN <<>> ELSE LeadIn(k - 1) \o <<W(6, k, 0, k)>>

\* subroutines i..depth laid out from address `at`: each calls the next and
\* returns, the innermost only returns
RECURSIVE Subroutines(_, _, _)
Subroutines(i, depth, at) ==
  IF i > depth THEN <<>>
  ELSE IF i = depth THEN <<W(0, 0, 14, 14)>>
  ELSE <<W(2, 0, 0, 0) + at + 4, W(0, 0, 14, 14)>> \o Subroutines(i + 1, depth, at + 4)

\* lead 6XNN instructions, a call of `depth` nested subroutines placed `pad`
\* bytes after the main program (none and a bare return when depth = 0), then
\* `extra` further returns, then the halt
CallProgram(lead, pad, depth, extra) ==
  LET mainLen == lead + (IF depth > 0 THEN 1 ELSE 0) + extra + 1
      sub     == MEMORY_OFFSET + 2 * mainLen + pad
      main    == LeadIn(lead)
                 \o (IF depth > 0 THEN <<W(2, 0, 0, 0) + sub>> ELSE <<>>)
                 \o (IF extra > 0 THEN <<W(0, 0, 14, 14)>> ELSE <<>>)
                 \o <<Halt(mainLen - 1)>>
  IN WordsToBytes(main) \o Zeros(pad) \o WordsToBytes(Subroutines(1, depth, sub))

CallPrograms ==
  { CallProgram(lead, pad, depth, extra) :
      <<lead, pad, depth, extra>> \in (0..MaxLead) \X (0..MaxPad) \X (0..MaxDepth) \X {0, 1} }

InitCall == Start(CallPrograms, {"SuperChip"})

NextCall == Run_00EE \/ Run_1NNN \/ Run_2NNN \/ Run_6XNN

SpecCall == InitCall /\ [][NextCall]_vars

-----------------------------------------------------------------------------
(* sprite programs *)

MaxReps == 3

\* a 15-row sprite carried by the rom behind the code
SpriteData == <<255, 129, 165, 1, 128, 195, 60, 15, 240, 85, 170, 3, 192, 9, 254>>

RECURSIVE Repeat(_, _)
Repeat(w, k) == IF k = 0 THEN <<>> ELSE <<w>> \o Repeat(w, k - 1)

\* where a program finds its sprite: the font, the rom's SpriteData (-1), the
\* framebuffer, the last three bytes of memory
FontAt == 0

DataAt == 0 - 1

VramAt == DISPLAY_RANGE[1]

EdgeAt == TOTAL_RAM - 3

\* set Vx and Vy, point I at a sprite and draw it reps1 times; then, when
\* reps2 > 0, move Vx by dx, point I at a second sprite and draw it reps2
\* times; then clear the screen and halt
DrawProgram(x, y, vx, vy, i1, n1, reps1, dx, i2, n2, reps2) ==
  LET len  == 3 + reps1 + (IF reps2 > 0 THEN 2 + reps2 ELSE 0) + 2
      data == MEMORY_OFFSET + 2 * len
      a1   == IF i1 = DataAt THEN data ELSE i1
      a2   == IF i2 = DataAt THEN data ELSE i2
      vx2  == (vx + dx) % 256
      code == << W(6, x, vx \div 16, vx % 16), W(6, y, vy \div 16, vy % 16),
                 W(10, 0, 0, 0) + a1 >>
              \o Repeat(W(13, x, y, n1), reps1)
              \o (IF reps2 > 0
                    THEN << W(6, x, vx2 \div 16, vx2 % 16), W(10, 0, 0, 0) + a2 >>
                         \o Repeat(W(13, x, y, n2), reps2)
                    ELSE <<>>)
              \o << W(0, 0, 14, 0), Halt(len - 1) >>
  IN WordsToBytes(code) \o SpriteData

XYPool == {<<0, 1>>, <<15, 1>>, <<0, 15>>, <<1, 1>>}

PosPool == {<<0, 0>>, <<60, 30>>, <<63, 31>>, <<70, 40>>, <<56, 31>>, <<255, 255>>}

HeightPool == {0, 1, 5, 15}

\* one sprite drawn 1..MaxReps times in succession
RepeatedDraws ==
  { DrawProgram(xy[1], xy[2], pos[1], pos[2], i1, n1, reps1, 0, 0, 0, 0) :
      <<xy, pos, i1, n1, reps1>> \in
        XYPool \X PosPool \X {FontAt, DataAt, VramAt, EdgeAt} \X HeightPool \X (1..MaxReps) }

\* a sprite drawn over another one
OverlappingDraws ==
  { DrawProgram(xy[1], xy[2], pos[1], pos[2], DataAt, 5, 1, dx, i2, n2, reps2) :
      <<xy, pos, dx, i2, n2, reps2>> \in
        {<<0, 1>>, <<15, 1>>} \X {<<0, 0>>, <<60, 30>>, <<56, 31>>} \X {0, 3}
        \X {FontAt, DataAt, VramAt} \X {1, 5} \X {1, 2} }

InitDraw == Start(RepeatedDraws \cup OverlappingDraws, {"SuperChip"})

NextDraw == Run_00E0 \/ Run_1NNN \/ Run_6XNN \/ Run_ANNN \/ Run_DXYN

SpecDraw == InitDraw /\ [][NextDraw]_vars

-----------------------------------------------------------------------------
(* block transfer programs *)

\* where a block goes to or comes from: the font, free memory, the last
\* three bytes of memory
TransferPool == {0, 768, TOTAL_RAM - 3}

\* set V0..V3, point I at the block and store V0..Vx
StoreProgram(x, i) ==
  WordsToBytes(<< W(6, 0, 1, 1), W(6, 1, 2, 2), W(6, 2, 3, 3), W(6, 3, 4, 4),
                  W(10, 0, 0, 0) + i, W(15, x, 5, 5), Halt(6) >>)

\* point I at the block and load V0..Vx
LoadProgram(x, i) ==
  WordsToBytes(<< W(10, 0, 0, 0) + i, W(15, x, 6, 5), Halt(2) >>)

TransferPrograms ==
  { StoreProgram(x, i) : <<x, i>> \in (0..15) \X TransferPool }
  \cup { LoadProgram(x, i) : <<x, i>> \in (0..15) \X TransferPool }

InitTransfer == Start(TransferPrograms, Interpreter)

NextTransfer == Run_1NNN \/ Run_6XNN \/ Run_ANNN \/ Run_FX55 \/ Run_FX65

SpecTransfer == InitTransfer /\ [][NextTransfer]_vars

-----------------------------------------------------------------------------
(* shift programs *)

\* set Vx, set Vy, then 8XY6 or 8XYE
ShiftPrograms ==
  { WordsToBytes(<< W(6, x, a \div 16, a % 16), W(6, y, b \div 16, b % 16),
                    W(8, x, y, k), Halt(3) >>) :
      <<x, y, a, b, k>> \in RegPool \X RegPool \X BytePool \X BytePool \X {6, 14} }

InitShift == Start(ShiftPrograms, Interpreter)

NextShift == Run_1NNN \/ Run_6XNN \/ Run_8XY6 \/ Run_8XYE

SpecShift == InitShift /\ [][NextShift]_vars

-----------------------------------------------------------------------------
(* jump-with-offset programs *)

\* the register named by the top nibble of NNN, the low byte of NNN, and the
\* values of V0 and Vx
JumpRegPool == {2, 3, 13}

JumpLowPool == {16, 129, 255}

OffsetPool == {0, 2, 255}

\* the byte at address a of a rom that stops at address t
HaltByteAt(a, t) ==
  IF a = t THEN (W(1, 0, 0, 0) + t) \div 256
  ELSE IF a = t + 1 THEN (W(1, 0, 0, 0) + t) % 256
  ELSE 0

\* set V0 = a, set Vx = b, BNNN with NNN = x * 256 + low; the rom stops at
\* NNN + a and at NNN + b
JumpProgram(x, low, a, b) ==
  LET nnn   == x * 256 + low
      last  == (IF a > b THEN nnn + a ELSE nnn + b) + 1
      start == WordsToBytes(<< W(6, 0, a \div 16, a % 16), W(6, x, b \div 16, b % 16),
                               W(11, 0, 0, 0) + nnn >>)
  IN [i \in 1..(last - MEMORY_OFFSET + 1) |->
        IF i <= Len(start) THEN start[i]
        ELSE LET at == MEMORY_OFFSET + i - 1
             IN IF at \in {nnn + a, nnn + a + 1} THEN HaltByteAt(at, nnn + a)
                ELSE HaltByteAt(at, nnn + b)]

\* set V0 = VF = 0xFF, then BFFF: the sum is past the end of memory
JumpPastEndProgram ==
  WordsToBytes(<< W(6, 0, 15, 15), W(6, 15, 15, 15), W(11, 15, 15, 15) >>)

JumpPrograms ==
  { JumpProgram(x, low, a, b) :
      <<x, low, a, b>> \in JumpRegPool \X JumpLowPool \X OffsetPool \X OffsetPool }
  \cup {JumpPastEndProgram}

InitJump == Start(JumpPrograms, Interpreter)

NextJump == Run_1NNN \/ Run_6XNN \/ Run_BNNN

SpecJump == InitJump /\ [][NextJump]_vars

-----------------------------------------------------------------------------
(* key-wait programs *)

\* set Vx, then wait for a key into Vx
KeyWaitProgram(x) ==
  WordsToBytes(<< W(6, x, 5, 5), W(15, x, 0, 10), Halt(2) >>)

\* store the word F00A in the last two bytes of memory and jump to it
KeyWaitAtEndProgram ==
  WordsToBytes(<< W(6, 0, 15, 0), W(6, 1, 0, 10), W(10, 0, 0, 0) + (TOTAL_RAM - 2),
                  W(15, 1, 5, 5), W(1, 0, 0, 0) + (TOTAL_RAM - 2) >>)

KeyWaitPrograms == { KeyWaitProgram(x) : x \in RegPool } \cup {KeyWaitAtEndProgram}

InitKeyWait == Start(KeyWaitPrograms, Interpreter)

NextKeyWait ==
  Run_1NNN \/ Run_6XNN \/ Run_ANNN \/ Run_FX55 \/ Run_FX0A \/ KeyPadPoll

SpecKeyWait == InitKeyWait /\ [][NextKeyWait]_vars

-----------------------------------------------------------------------------
(* key-test programs *)

\* the key codes tested: one that is held at times, one that never is
KeyPool == {1, 7, 15}

\* set Vx = v, then EX9E (nn = 0x9E) or EXA1 (nn = 0xA1); the program stops
\* at either of the two next instructions
KeyTestProgram(x, v, nn) ==
  WordsToBytes(<< W(6, x, 0, v), W(14, x, 0, 0) + nn, Halt(2), Halt(3) >>)

KeyTestPrograms ==
  { KeyTestProgram(x, v, nn) : <<x, v, nn>> \in RegPool \X KeyPool \X {158, 161} }

InitKeyTest == Start(KeyTestPrograms, {"SuperChip"})

NextKeyTest == Run_1NNN \/ Run_6XNN \/ Run_not_implemented \/ KeyPadPoll

SpecKeyTest == InitKeyTest /\ [][NextKeyTest]_vars

-----------------------------------------------------------------------------
(* timer programs *)

\* the values written to the timers
TimerPool == {0, 2, 255}

\* the low bytes of the F-family words: FX07, FX0F, FX15, FX18
TimerWords == {7, 15, 21, 24}

\* set Vx = v, then two F-family words on Vx
TimerProgram(x, v, nn1, nn2) ==
  WordsToBytes(<< W(6, x, v \div 16, v % 16), W(15, x, 0, 0) + nn1,
                  W(15, x, 0, 0) + nn2, Halt(3) >>)

TimerPrograms ==
  { TimerProgram(x, v, nn1, nn2) :
      <<x, v, nn1, nn2>> \in {1, 15} \X TimerPool \X TimerWords \X TimerWords }

InitTimer == Start(TimerPrograms, {"SuperChip"})

NextTimer ==
  \/ Run_1NNN \/ Run_6XNN \/ Run_FX07 \/ Run_FX15 \/ Run_FX18
  \/ Run_not_implemented \/ beep

SpecTimer == InitTimer /\ [][NextTimer]_vars

-----------------------------------------------------------------------------
(* every way the program counter is written: calls and returns, jumps with  *)
(* offset, the key wait with no key ever released                            *)

InitPc == InitCall \/ InitJump \/ InitKeyWait

NextPc == NextCall \/ NextJump \/ Run_ANNN \/ Run_FX55 \/ Run_FX0A

SpecPc == InitPc /\ [][NextPc]_vars

-----------------------------------------------------------------------------
(* programs with a word outside the instruction table *)

\* 0123, 5011, 9011, 8018, 801F, E1FF, F10F, F117, F1FF
UnknownWords == {291, 20497, 36881, 32792, 32799, 57855, 61711, 61719, 61951}

\* set V0 = a, set V1 = b, then the word; the program stops at either of the
\* two next instructions
UnknownProgram(a, b, w) ==
  WordsToBytes(<< W(6, 0, 0, a), W(6, 1, 0, b), w, Halt(3), Halt(4) >>)

UnknownPrograms ==
  { UnknownProgram(a, b, w) : <<a, b, w>> \in {0, 5} \X {0, 5} \X UnknownWords }

InitUnknown == Start(UnknownPrograms, {"SuperChip"})

NextUnknown ==
  \/ Run_1NNN \/ Run_6XNN \/ Run_5XNN \/ Run_9XY0 \/ Run_FX07 \/ Run_FX15
  \/ Run_not_implemented

SpecUnknown == InitUnknown /\ [][NextUnknown]_vars

-----------------------------------------------------------------------------
(* programs whose first instruction is a jump *)

\* the addresses jumped to: the jump itself, and even and odd addresses past it
FirstJumpTargets == {MEMORY_OFFSET} \cup ((MEMORY_OFFSET + 2)..(MEMORY_OFFSET + 64))

\* 1NNN first; the rom stops at NNN
FirstJumpProgram(nnn) ==
  [i \in 1..(nnn - MEMORY_OFFSET + 2) |->
     IF i <= 2 THEN WordsToBytes(<< W(1, 0, 0, 0) + nnn >>)[i]
     ELSE HaltByteAt(MEMORY_OFFSET + i - 1, nnn)]

FirstJumpPrograms == { FirstJumpProgram(nnn) : nnn \in FirstJumpTargets }

InitFirstJump == Start(FirstJumpPrograms, Interpreter)

NextFirstJump == Run_1NNN

SpecFirstJump == InitFirstJump /\ [][NextFirstJump]_vars

-----------------------------------------------------------------------------
(* BCD programs *)

\* where the digits go: the font, free memory, the last three bytes of
\* memory, and one byte further
BcdPool == TransferPool \cup {TOTAL_RAM - 2}

\* set Vx = v, point I at the digits, FX33
BcdProgram(x, v, i) ==
  WordsToBytes(<< W(6, x, v \div 16, v % 16), W(10, 0, 0, 0) + i, W(15, x, 3, 3),
                  Halt(3) >>)

BcdPrograms ==
  { BcdProgram(x, v, i) : <<x, v, i>> \in {1, 15} \X (0..(U8 - 1)) \X BcdPool }

InitBcd == Start(BcdPrograms, {"SuperChip"})

NextBcd == Run_1NNN \/ Run_6XNN \/ Run_ANNN \/ Run_FX33

SpecBcd == InitBcd /\ [][NextBcd]_vars

-----------------------------------------------------------------------------
(* a memory full of instruction words, to fetch and decode *)

\* the nibbles the words are made of
NibbleSeq == <<0, 1, 7, 8, 14, 15>>

\* the k-th word, k in 0..(6^4 - 1): every combination of four nibbles
WordNumber(k) ==
  W(NibbleSeq[((k \div 216) % 6) + 1], NibbleSeq[((k \div 36) % 6) + 1],
    NibbleSeq[((k \div 6) % 6) + 1], NibbleSeq[(k % 6) + 1])

\* all the words in a row, as bytes
AllWords ==
  [i \in 1..2592 |->
     IF i % 2 = 1 THEN WordNumber((i - 1) \div 2) \div 256
     ELSE WordNumber((i - 1) \div 2) % 256]

\* the words at even addresses, and shifted by one byte
DecodePrograms == {AllWords, <<15>> \o AllWords}

InitDecode == Start(DecodePrograms, {"SuperChip"})

NextDecode == FetchDecode

SpecDecode == InitDecode /\ [][NextDecode]_vars

-----------------------------------------------------------------------------
(* programs reaching the end of memory *)

\* where the index register points: low memory and the last bytes
BoundsPool == {768, TOTAL_RAM - 3, TOTAL_RAM - 1}

\* point I at the block, store (k = 5) or load (k = 6) V0..Vx, then jump to
\* the last byte of memory
BoundsProgram(k, x, i) ==
  WordsToBytes(<< W(10, 0, 0, 0) + i, W(15, x, k, 5), W(1, 15, 15, 15) >>)

BoundsPrograms ==
  { BoundsProgram(k, x, i) : <<k, x, i>> \in {5, 6} \X {0, 2, 3, 15} \X BoundsPool }
  \cup {JumpPastEndProgram}

InitBounds == Start(BoundsPrograms, Interpreter)

NextBounds ==
  \/ Run_1NNN \/ Run_6XNN \/ Run_ANNN \/ Run_BNNN \/ Run_FX55 \/ Run_FX65
  \/ Run_InvalidAddress

SpecBounds == InitBounds /\ [][NextBounds]_vars

-----------------------------------------------------------------------------
(* files to load *)

\* the lengths of the files: empty, short, and around the capacity
LoadLengths ==
  {0, 2, AVAILABLE_RAM - 1, AVAILABLE_RAM, AVAILABLE_RAM + 1,
   TOTAL_RAM - MEMORY_OFFSET, TOTAL_RAM}

\* a file of len bytes, none of them zero
FileOf(len) == [i \in 1..len |-> (i % 255) + 1]

\* no memory yet: the state before Rom::load
InitLoad ==
  /\ interpreter \in {"Chip48", "SuperChip"}
  /\ memory = <<>>
  /\ pc = MEMORY_OFFSET
  /\ stack = <<>>
  /\ register = NewRegister
  /\ index_register = 0
  /\ delay_timer = 0
  /\ sound_timer = 0
  /\ keypad = NoKeys
  /\ sound = "stopped"
  /\ result = "Ok"
  /\ prev = NoStep
  /\ prev2 = NoStep
  /\ call_history = NoCalls

NextLoad ==
  \/ \E len \in LoadLengths : Load(FileOf(len))
  \/ (memory # <<>> /\ FetchDecode)

SpecLoad == InitLoad /\ [][NextLoad]_vars

-----------------------------------------------------------------------------
(* skip programs *)

\* the values compared
SkipValues == {0, 7, 255}

\* set Vx and Vy, then the skip k: 3XNN and 4XNN compare Vx with NN = b,
\* 5XY0 and 9XY0 compare Vx with Vy
SkipProgram(k, x, y, a, b) ==
  WordsToBytes(<< W(6, x, a \div 16, a % 16), W(6, y, b \div 16, b % 16),
                  IF k \in {3, 4} THEN W(k, x, b \div 16, b % 16) ELSE W(k, x, y, 0),
                  Halt(3), Halt(4) >>)

\* skip words whose bytes are also the values of V0 and V1
EndSkipWords ==
  { <<48, 48>>, <<48, 49>>, <<64, 64>>, <<64, 65>>,
    <<80, 16>>, <<80, 0>>, <<144, 16>>, <<144, 0>> }

\* store the skip word in the last two bytes of memory and jump to it
EndSkipProgram(word) ==
  WordsToBytes(<< W(6, 0, 0, 0) + word[1], W(6, 1, 0, 0) + word[2],
                  W(10, 15, 15, 14), W(15, 1, 5, 5), W(1, 15, 15, 14) >>)

SkipPrograms ==
  { SkipProgram(k, x, y, a, b) :
      <<k, x, y, a, b>> \in {3, 4, 5, 9} \X {1, 15} \X {1, 2} \X SkipValues \X SkipValues }
  \cup { EndSkipProgram(word) : word \in EndSkipWords }

InitSkip == Start(SkipPrograms, Interpreter)

NextSkip ==
  \/ Run_1NNN \/ Run_6XNN \/ Run_ANNN \/ Run_FX55
  \/ Run_3XNN \/ Run_4XNN \/ Run_5XNN \/ Run_9XY0

SpecSkip == InitSkip /\ [][NextSkip]_vars

-----------------------------------------------------------------------------
(* one instruction of every kind that names a register *)

\* the instructions, by first nibble and last byte; nibble 2 is x, and y
\* replaces nibble 3 where the instruction has a y
OperandTemplates ==
  { <<3, 1>>, <<4, 0>>, <<5, 0>>, <<6, 7>>, <<7, 9>>,
    <<8, 0>>, <<8, 1>>, <<8, 2>>, <<8, 3>>, <<8, 4>>, <<8, 5>>, <<8, 6>>,
    <<8, 7>>, <<8, 14>>, <<9, 0>>, <<11, 6>>, <<12, 255>>, <<13, 3>>,
    <<15, 7>>, <<15, 10>>, <<15, 15>>, <<15, 24>>, <<15, 30>>, <<15, 41>>,
    <<15, 51>>, <<15, 85>>, <<15, 101>> }

OperandWord(t, x, y) ==
  IF t[1] \in {5, 8, 9, 13} THEN W(t[1], x, y, t[2] % 16)
  ELSE W(t[1], x, 0, 0) + t[2]

\* point I at i, execute the word, stop
OperandProgram(i, w) ==
  WordsToBytes(<< W(10, 0, 0, 0) + i, w, Halt(2) >>)

OperandPrograms ==
  { OperandProgram(i, OperandWord(t, x, y)) :
      <<i, t, x, y>> \in {0, TOTAL_RAM - 2} \X OperandTemplates
                          \X {0, 9, 10, 15} \X {0, 11, 15} }
  \cup { OperandProgram(0, W(0, 0, 14, 14)) }

InitOperand == Start(OperandPrograms, Interpreter)

NextOperand ==
  \/ Run_1NNN \/ Run_ANNN \/ Run_00EE
  \/ Run_3XNN \/ Run_4XNN \/ Run_5XNN \/ Run_9XY0
  \/ Run_6XNN \/ Run_7XNN
  \/ Run_8XY0 \/ Run_8XY1 \/ Run_8XY2 \/ Run_8XY3 \/ Run_8XY4 \/ Run_8XY5
  \/ Run_8XY6 \/ Run_8XY7 \/ Run_8XYE
  \/ Run_BNNN \/ Run_CXNN \/ Run_DXYN
  \/ Run_FX07 \/ Run_FX0A \/ Run_FX15 \/ Run_FX18 \/ Run_FX1E \/ Run_FX29
  \/ Run_FX33 \/ Run_FX55 \/ Run_FX65

SpecOperand == InitOperand /\ [][NextOperand]_vars

-----------------------------------------------------------------------------
(* programs with large operands *)

\* the characters whose sprite address FX29 computes
FontCharPool == {0, 15, 51, 52, 255}

\* set V0, take the address of its character
FontCharProgram(v) ==
  WordsToBytes(<< W(6, 0, 0, 0) + v, W(15, 0, 2, 9), Halt(2) >>)

\* raise I to 0xFFFE with FX1E (0xFFF + 240 * 255 + 239), then execute w
HighIndexProgram(w) ==
  WordsToBytes(<< W(6, 0, 15, 15), W(6, 1, 14, 15), W(10, 15, 15, 15) >>
               \o Repeat(W(15, 0, 1, 14), 240)
               \o << W(15, 1, 1, 14), w, Halt(245) >>)

\* FX33, FX55, FX65 and DXYN at that index
HighIndexWords == {W(15, 0, 3, 3), W(15, 1, 5, 5), W(15, 1, 6, 5), W(13, 0, 0, 2)}

WidthPrograms ==
  { FontCharProgram(v) : v \in FontCharPool }
  \cup { HighIndexProgram(w) : w \in HighIndexWords }
  \cup {JumpPastEndProgram}

InitWidth == Start(WidthPrograms, Interpreter)

NextWidth ==
  \/ Run_1NNN \/ Run_6XNN \/ Run_ANNN \/ Run_BNNN \/ Run_DXYN
  \/ Run_FX1E \/ Run_FX29 \/ Run_FX33 \/ Run_FX55 \/ Run_FX65

SpecWidth == InitWidth /\ [][NextWidth]_vars

-----------------------------------------------------------------------------
(* store, overwrite, load *)

\* what Vi holds when the program stores
StoredValue(i) == 15 * i + 15

\* 6k NN for k = from..15
RECURSIVE SetRegisters(_, _)
SetRegisters(from, junk) ==
  IF from > 15 THEN <<>>
  ELSE << W(6, from, 0, 0) + (IF junk < 0 THEN StoredValue(from) ELSE junk) >>
       \o SetRegisters(from + 1, junk)

\* set V0..VF, point I at a and store V0..Vx; point I at a again, overwrite
\* V0..VF with junk and load V0..Vx
RoundTripProgram(x, a, junk) ==
  WordsToBytes(SetRegisters(0, -1)
               \o << W(10, 0, 0, 0) + a, W(15, x, 5, 5), W(10, 0, 0, 0) + a >>
               \o SetRegisters(0, junk)
               \o << W(15, x, 6, 5), Halt(36) >>)

\* free memory, the framebuffer, and the last 16 bytes
RoundTripPool == {768, DISPLAY_RANGE[1], TOTAL_RAM - 16}

RoundTripPrograms ==
  { RoundTripProgram(x, a, junk) :
      <<x, a, junk>> \in (0..15) \X RoundTripPool \X {0, 255} }

InitRoundTrip == Start(RoundTripPrograms, Interpreter)

NextRoundTrip == Run_1NNN \/ Run_6XNN \/ Run_ANNN \/ Run_FX55 \/ Run_FX65

SpecRoundTrip == InitRoundTrip /\ [][NextRoundTrip]_vars

-----------------------------------------------------------------------------
(* tone programs, with the sound tick called again and again *)

\* the values FX18 gives the sound timer
TonePool == {0, 1, 3, 9}

\* set V1 = v and start the tone, set V1 = w, then read the delay timer (7)
\* or set the sound timer once more (24)
ToneProgram(v, w, nn) ==
  WordsToBytes(<< W(6, 1, 0, 0) + v, W(15, 1, 1, 8), W(6, 1, 0, 0) + w,
                  W(15, 1, 0, 0) + nn, Halt(4) >>)

TonePrograms ==
  { ToneProgram(v, w, nn) : <<v, w, nn>> \in TonePool \X {0, 2} \X {7, 24} }

InitTone == Start(TonePrograms, {"SuperChip"})

NextTone == Run_1NNN \/ Run_6XNN \/ Run_FX07 \/ Run_FX18 \/ beep

\* the caller keeps calling Emulator::beep
SpecTone == InitTone /\ [][NextTone]_vars /\ WF_vars(beep)

-----------------------------------------------------------------------------
(* Claims *)

\* the last step executed the arm `arm`
Ran(arm) == prev.arm = arm

V0 == RegName(0)

V1 == RegName(1)

\* C1 (as stated): after 8XY4, for every x and y, VF is 1 iff old Vx + old Vy
\* exceeds 255 and 0 otherwise, and Vx holds (old Vx + old Vy) mod 256.
C1_AddCarryAllRegisters ==
  Ran("op_8XY4") =>
    LET sum == prev.register[prev.x] + prev.register[prev.y]
    IN /\ register[VF] = (IF sum > 255 THEN 1 ELSE 0)
       /\ register[prev.x] = sum % 256

\* C1 (amended): after 8XY4, for every x and y, VF is 1 iff old Vx + old Vy
\* exceeds 255 and 0 otherwise; Vx holds (old Vx + old Vy) mod 256 when x is not
\* 0xF (the flag is written last, over the sum); no other register changes.
C1_AddCarry ==
  Ran("op_8XY4") =>
    LET sum == prev.register[prev.x] + prev.register[prev.y]
    IN /\ result = "Ok"
       /\ register[VF] = (IF sum > 255 THEN 1 ELSE 0)
       /\ prev.x # VF => register[prev.x] = sum % 256
       /\ \A k \in RegNames \ {prev.x, VF} : register[k] = prev.register[k]

\* C1 witness: V0 = 0xFE, V1 = 0x02, 8014 has run: V0 = 0x00 and VF = 1.
C1_Witness ==
  /\ Ran("op_8XY4") /\ prev.x = V0 /\ prev.y = V1
  /\ prev.register[V0] = 254 /\ prev.register[V1] = 2
  /\ register[V0] = 0 /\ register[VF] = 1

\* C2: after 8XY5 (Vx := Vx - Vy) and after 8XY7 (Vx := Vy - Vx), for every x
\* and y, VF is 1 iff the old minuend was >= the old subtrahend, 0 otherwise;
\* the flag is written after the data result, so with x = 0xF it is VF that
\* holds the flag.
C2_SubtractBorrow ==
  /\ Ran("op_8XY5") =>
       /\ result = "Ok"
       /\ register[VF] =
            (IF prev.register[prev.x] >= prev.register[prev.y] THEN 1 ELSE 0)
  /\ Ran("op_8XY7") =>
       /\ result = "Ok"
       /\ register[VF] =
            (IF prev.register[prev.y] >= prev.register[prev.x] THEN 1 ELSE 0)

\* C2 witness: 8XY5 with x = 0xF has run with a borrow, and VF is 0.
C2_Witness ==
  /\ Ran("op_8XY5") /\ prev.x = VF
  /\ prev.register[prev.x] < prev.register[prev.y]
  /\ register[VF] = 0

C4_ReturnOnEmptyStack ==
  (Ran("op_00EE") /\ prev.stack = <<>>) =>
    /\ result = "JumpOutOfBounds"
    /\ pc = prev.at + 2
    /\ pc # 0
    /\ stack = <<>>
    /\ register = prev.register
    /\ index_register = prev.index_register
    /\ memory = prev.memory

\* C4 witness: after a call and its return emptied the stack again, a second
\* 00EE has failed.
C4_Witness ==
  /\ Ran("op_00EE") /\ prev.stack = <<>> /\ prev2.arm = "op_00EE"
  /\ result = "JumpOutOfBounds"

-----------------------------------------------------------------------------
(* the display: pixel (col, row) is bit row * 64 + col of the framebuffer     *)
(* bytes 0xF00..=0xFFF, bit k being bit k mod 8 of byte k div 8               *)

FramebufferBytes == 3840..4095

PixelAt(mem, col, row) ==
  Bit(mem[3840 + ((row * 64 + col) \div 8)], (row * 64 + col) % 8)

Xor(a, b) == (a + b) % 2

\* the origin and the sprite of the draw recorded in snapshot d
OriginX(d) == d.register[d.x] % 64

OriginY(d) == d.register[d.y] % 32

SpriteOutsideFramebuffer(d) ==
  \A r \in 0..(d.n - 1) : d.index_register + r < 3840

\* some framebuffer bit is b0 in m0 and b1 in m1
SomeBitWent(m0, b0, m1, b1) ==
  \E a \in FramebufferBytes :
    /\ m0[a] # m1[a]
    /\ \E p \in 0..7 : Bit(m0[a], p) = b0 /\ Bit(m1[a], p) = b1

\* the last two steps were the same DXYN with the same index register, and
\* both succeeded
DrewTwice ==
  /\ Ran("DXYN") /\ prev2.arm = "DXYN"
  /\ prev.op_code = prev2.op_code
  /\ prev.index_register = prev2.index_register
  /\ prev.result = "Ok" /\ result = "Ok"

\* C5 (as stated): the identical DXYN executed twice in succession with the
\* same index register restores every framebuffer bit to its value before the
\* first draw, and VF is 1 after the second draw.
C5_DrawTwiceAnySprite ==
  DrewTwice =>
    /\ \A a \in FramebufferBytes : memory[a] = prev2.memory[a]
    /\ register[VF] = 1

\* C5 (amended): the identical DXYN executed twice in succession with the
\* same index register, at the same origin and with sprite bytes outside the
\* framebuffer, restores every framebuffer bit to its value before the first
\* draw; VF is 1 after the second draw iff the first draw set at least one
\* pixel, and 0 otherwise.
C5_DrawTwice ==
  ( /\ DrewTwice
    /\ OriginX(prev) = OriginX(prev2) /\ OriginY(prev) = OriginY(prev2)
    /\ SpriteOutsideFramebuffer(prev) ) =>
    /\ \A a \in FramebufferBytes : memory[a] = prev2.memory[a]
    /\ register[VF] = (IF SomeBitWent(prev2.memory, 0, prev.memory, 1) THEN 1 ELSE 0)

\* C5 witness: a sprite was drawn twice over a non-empty display, the first
\* draw changed it, the second restored it and left VF = 1.
C5_Witness ==
  /\ DrewTwice
  /\ OriginX(prev) = OriginX(prev2) /\ OriginY(prev) = OriginY(prev2)
  /\ SpriteOutsideFramebuffer(prev)
  /\ \E a \in FramebufferBytes : prev2.memory[a] # 0
  /\ prev.memory # prev2.memory
  /\ memory = prev2.memory
  /\ register[VF] = 1

\* C6: a DXYN draw with origin (ox, oy) = (Vx mod 64, Vy mod 32) and height n
\* changes only pixels (col, row) with ox <= col < min(ox + 8, 64) and
\* oy <= row < min(oy + n, 32), and no memory byte outside 0xF00..=0xFFF.
C6_Clipping ==
  Ran("DXYN") =>
    /\ \A a \in 0..3839 : memory[a] = prev.memory[a]
    /\ \A a \in FramebufferBytes :
         memory[a] # prev.memory[a] =>
           \A p \in 0..7 :
             Bit(memory[a], p) # Bit(prev.memory[a], p) =>
               LET col == ((a - 3840) * 8 + p) % 64
                   row == ((a - 3840) * 8 + p) \div 64
               IN /\ PixelAt(memory, col, row) # PixelAt(prev.memory, col, row)
                  /\ OriginX(prev) <= col /\ col < OriginX(prev) + 8 /\ col < 64
                  /\ OriginY(prev) <= row /\ row < OriginY(prev) + prev.n /\ row < 32

\* C6 witness: a sprite with its origin at column 60, row 30 and bits in the
\* columns and rows past the edges was drawn, and changed the display.
C6_Witness ==
  /\ Ran("DXYN") /\ result = "Ok"
  /\ OriginX(prev) = 60 /\ OriginY(prev) = 30 /\ prev.n = 5
  /\ prev.memory[prev.index_register] % 16 # 0
  /\ PixelAt(memory, 63, 30) # PixelAt(prev.memory, 63, 30)
  /\ PixelAt(memory, 60, 31) # PixelAt(prev.memory, 60, 31)

\* C7: after every successful DXYN draw, VF is 1 iff at least one framebuffer
\* bit went from set to clear during that draw, and 0 otherwise; no draw
\* leaves VF at a value other than 0 or 1.
C7_CollisionFlag ==
  /\ (Ran("DXYN") /\ result = "Ok") =>
       register[VF] = (IF SomeBitWent(prev.memory, 1, memory, 0) THEN 1 ELSE 0)
  /\ Ran("DXYN") => register[VF] \in {0, 1}

\* C7 witness: a draw with x = 0xF cleared some pixels and set others, and
\* VF is 1.
C7_Witness ==
  /\ Ran("DXYN") /\ result = "Ok" /\ prev.x = VF
  /\ SomeBitWent(prev.memory, 1, memory, 0)
  /\ SomeBitWent(prev.memory, 0, memory, 1)
  /\ register[VF] = 1

\* C8: with sprite bytes outside the framebuffer, after DXYN every in-bounds
\* pixel (ox + c, oy + r), 0 <= r < n, 0 <= c < 8, equals its old value XOR
\* bit (7 - c) of memory[I + r].
C8_SpriteCompositing ==
  (Ran("DXYN") /\ SpriteOutsideFramebuffer(prev)) =>
    /\ result = "Ok"
    /\ \A r \in 0..(prev.n - 1) : \A c \in 0..7 :
         (OriginX(prev) + c < 64 /\ OriginY(prev) + r < 32) =>
           PixelAt(memory, OriginX(prev) + c, OriginY(prev) + r) =
             Xor(PixelAt(prev.memory, OriginX(prev) + c, OriginY(prev) + r),
                 Bit(prev.memory[prev.index_register + r], 7 - c))

\* C8 witness: a 5-row sprite with an asymmetric row was drawn over pixels
\* that were already set.
C8_Witness ==
  /\ Ran("DXYN") /\ SpriteOutsideFramebuffer(prev) /\ prev.n = 5
  /\ prev.memory[prev.index_register + 3] = 1
  /\ \E a \in FramebufferBytes : prev.memory[a] # 0
  /\ SomeBitWent(prev.memory, 1, memory, 0)

\* C9: after 00E0 every bit of the bytes 0xF00..=0xFFF reads 0, and no byte
\* outside the framebuffer is changed.
C9_ClearScreen ==
  Ran("op_00E0") =>
    /\ \A a \in FramebufferBytes : memory[a] = 0
    /\ \A a \in 0..3839 : memory[a] = prev.memory[a]

\* the operand x of the instruction recorded in snapshot d, as a number
OperandX(d) == (d.op_code \div 256) % 16

\* C10: in every interpreter variant, for every x and every I with I + x in
\* bounds, FX55 writes Vi to memory[I_old + i] for each i in 0..=x and changes
\* no other memory byte, and FX65 sets Vi to memory[I_old + i] for each i in
\* 0..=x and changes no other register.
C10_BlockTransferContiguous ==
  LET x == OperandX(prev)
      i0 == prev.index_register
  IN /\ (Ran("op_FX55") /\ i0 + x < 4096) =>
          /\ \A i \in 0..x : memory[i0 + i] = prev.register[RegName(i)]
          /\ \A a \in (0..4095) \ (i0..(i0 + x)) : memory[a] = prev.memory[a]
     /\ (Ran("op_FX65") /\ i0 + x < 4096) =>
          /\ \A i \in 0..x : register[RegName(i)] = prev.memory[i0 + i]
          /\ \A i \in (x + 1)..15 : register[RegName(i)] = prev.register[RegName(i)]

\* C11: after a successful FX55 or FX65 with operand x, under CosmacVIP the
\* index register equals I_old + (x + 1), the number of registers transferred,
\* and under Chip48 and SuperChip it equals I_old.
C11_IndexAfterTransfer ==
  ((Ran("op_FX55") \/ Ran("op_FX65")) /\ result = "Ok") =>
    IF interpreter = "CosmacVIP"
      THEN index_register = prev.index_register + OperandX(prev) + 1
      ELSE index_register = prev.index_register

\* C12: under CosmacVIP 8XY6 sets Vx to old Vy >> 1 with VF = bit 0 of old Vy,
\* and 8XYE sets Vx to (old Vy << 1) mod 256 with VF = bit 7 of old Vy; under
\* Chip48 and SuperChip the shifted value is old Vx, whatever Vy holds, and Vy
\* is not modified for y other than x and 0xF.  In every variant VF receives
\* the bit shifted out, so with x = 0xF it is the flag that VF holds.
C12_ShiftQuirk ==
  LET src == IF interpreter = "CosmacVIP" THEN prev.register[prev.y]
                                          ELSE prev.register[prev.x]
      Vy_kept == (interpreter # "CosmacVIP" /\ prev.y \notin {prev.x, VF}) =>
                   register[prev.y] = prev.register[prev.y]
  IN /\ Ran("op_8XY6") =>
          /\ result = "Ok"
          /\ register[VF] = src % 2
          /\ prev.x # VF => register[prev.x] = src \div 2
          /\ Vy_kept
     /\ Ran("op_8XYE") =>
          /\ result = "Ok"
          /\ register[VF] = Bit(src, 7)
          /\ prev.x # VF => register[prev.x] = (src * 2) % 256
          /\ Vy_kept

\* C12 witness: under CosmacVIP 8016 has run with V0 = 0xFF and V1 = 0x02:
\* V0 = 1 and VF = 0, both taken from V1.
C12_Witness ==
  /\ Ran("op_8XY6") /\ interpreter = "CosmacVIP"
  /\ prev.x = V0 /\ prev.y = V1
  /\ prev.register[V0] = 255 /\ prev.register[V1] = 2
  /\ register[V0] = 1 /\ register[VF] = 0 /\ register[V1] = 2

\* C13: BNNN sets the program counter to NNN + V0 under CosmacVIP and to
\* NNN + Vx, x the top nibble of NNN, under Chip48 and SuperChip, and changes
\* no register, stack or memory.
C13_JumpWithOffset ==
  Ran("op_BNNN") =>
    /\ result = "Ok"
    /\ pc = prev.nnn + (IF interpreter = "CosmacVIP" THEN prev.register[V0]
                                                       ELSE prev.register[prev.x])
    /\ prev.x = RegName(prev.nnn \div 256)
    /\ register = prev.register
    /\ stack = prev.stack
    /\ memory = prev.memory

\* C13 witness: BDFF has run under Chip48 with V0 = 0 and VD = 0xFF, and the
\* program counter is 0xDFF + 0xFF.
C13_Witness ==
  /\ Ran("op_BNNN") /\ interpreter = "Chip48"
  /\ prev.nnn = 3583 /\ prev.register[V0] = 0 /\ prev.register[prev.x] = 255
  /\ pc = 3838

\* C14: for an FX0A at an even address a in 0..=0xFFE, a step taken while no
\* key release is available ends with the program counter at a again and with
\* registers, index register, stack, timers and memory unchanged; a step taken
\* when a release of key k is available sets Vx = k and ends with the program
\* counter at (a + 2) mod 4096.
C14_KeyWaitPolling ==
  (Ran("op_FX0A") /\ prev.at % 2 = 0 /\ prev.at \in 0..4094) =>
    IF prev.keypad.released = <<>>
      THEN /\ pc = prev.at
           /\ register = prev.register
           /\ index_register = prev.index_register
           /\ stack = prev.stack
           /\ delay_timer = prev.delay_timer
           /\ sound_timer = prev.sound_timer
           /\ memory = prev.memory
      ELSE /\ register[prev.x] = prev.keypad.released[1]
           /\ pc = (prev.at + 2) % 4096

\* the step recorded in snapshot d executed a word E?nn
KeyTestWord(d, nn) == d.op_code \div 4096 = 14 /\ d.nn = nn

\* the key whose code is Vx was held when the step recorded in d ran
KeyHeld(d) == is_key_pressed(d.keypad, d.register[d.x])

\* C15: a step whose word is EX9E ends with the program counter advanced by
\* two instruction widths iff the key whose code is Vx is held, by one width
\* otherwise; a step whose word is EXA1 skips iff that key is not held.
C15_KeyTestSkip ==
  /\ KeyTestWord(prev, 158) =>
       pc = (prev.at + (IF KeyHeld(prev) THEN 4 ELSE 2)) % 4096
  /\ KeyTestWord(prev, 161) =>
       pc = (prev.at + (IF ~KeyHeld(prev) THEN 4 ELSE 2)) % 4096

\* the step recorded in snapshot d executed a word F?nn
TimerWord(d, nn) == d.op_code \div 4096 = 15 /\ d.nn = nn

\* C16: a step whose word is FX15 sets the delay timer to Vx, a step whose
\* word is FX18 sets the sound timer to Vx, a step whose word is FX07 sets Vx
\* to the delay timer, and no word other than FX15 changes the delay timer.
C16_TimerOpcodes ==
  /\ TimerWord(prev, 21) => delay_timer = prev.register[prev.x]
  /\ TimerWord(prev, 24) => sound_timer = prev.register[prev.x]
  /\ TimerWord(prev, 7) => register[prev.x] = prev.delay_timer
  /\ (prev.op_code >= 0 /\ ~TimerWord(prev, 21)) => delay_timer = prev.delay_timer

\* C17: FX18 starts the tone exactly when the sound timer goes from zero to a
\* nonzero value; it starts no tone when the value written is 0, and the tone
\* is not playing once the sound timer has been set to 0.
C17_StartTone ==
  Ran("op_FX18") =>
    /\ (prev.sound = "stopped" /\ sound = "playing")
         <=> (prev.sound_timer = 0 /\ sound_timer # 0)
    /\ sound_timer = 0 => sound = "stopped"

\* C18: after every call of Emulator::beep, sound timer = 0 implies that the
\* tone is not playing: the tick that brings the timer to zero stops the tone.
C18_StopTone ==
  Ran("beep") => (sound_timer = 0 => sound = "stopped")

\* C19: Emulator::beep leaves a sound timer at 0 at 0 and a sound timer at
\* v > 0 at v - 1; whatever ticks and timer-setting opcodes ran, both timers
\* are in 0..=255.
C19_TimerSaturation ==
  /\ Ran("beep") =>
       sound_timer = (IF prev.sound_timer = 0 THEN 0 ELSE prev.sound_timer - 1)
  /\ sound_timer \in 0..255
  /\ delay_timer \in 0..255

\* C19 witness: FX18 wrote 2, two ticks brought the sound timer to 0 and a
\* third tick left it there.
C19_Witness ==
  /\ Ran("beep") /\ prev2.arm = "beep"
  /\ prev2.sound_timer = 1 /\ prev.sound_timer = 0 /\ sound_timer = 0

\* C20 (as stated): in every state reachable from the initial state by steps
\* of any loaded program, the program counter is even.
C20_PcAlwaysEven == pc % 2 = 0

EvenStack(stk) == \A i \in 1..Len(stk) : stk[i] % 2 = 0

\* the step recorded in snapshot d jumped or called to an odd address
OddJump(d) ==
  \/ d.arm \in {"op_1NNN", "op_2NNN"} /\ d.nnn % 2 = 1
  \/ /\ d.arm = "op_BNNN"
     /\ (d.nnn + d.register[IF interpreter = "CosmacVIP" THEN V0 ELSE d.x]) % 2 = 1

\* C20 (amended): the program counter starts even (0x200) with an empty stack,
\* and every step taken at an even program counter with only even return
\* addresses on the stack, other than a jump or call to an odd address (1NNN
\* or 2NNN with odd NNN, BNNN with an odd sum), leaves the program counter
\* even and only even return addresses on the stack.
C20_PcAlignment ==
  /\ prev.arm = "none" => (pc = 512 /\ stack = <<>>)
  /\ (prev.arm # "none" /\ prev.at % 2 = 0 /\ EvenStack(prev.stack) /\ ~OddJump(prev)) =>
       (pc % 2 = 0 /\ EvenStack(stack))

\* C20 witness: BNNN with an odd NNN and an odd offset, fetched at an even
\* address, has jumped to an even address.
C20_Witness ==
  /\ Ran("op_BNNN") /\ prev.at % 2 = 0 /\ prev.nnn % 2 = 1 /\ ~OddJump(prev)
  /\ pc % 2 = 0

\* C21: in every reachable state the program counter is an address inside
\* memory, 0 <= pc < 0x1000: no increment, jump, call, return, skip or key-wait
\* rewind takes it outside that range.
C21_PcInBounds == pc >= 0 /\ pc < 4096

\* the words of the canonical instruction table
Canonical(w) ==
  LET family == w \div 4096
      n      == w % 16
      nn     == w % 256
  IN CASE family = 0 -> w \in {0, 224, 238}
       [] family \in {5, 9} -> n = 0
       [] family = 8 -> n \in (0..7) \cup {14}
       [] family = 14 -> nn \in {158, 161}
       [] family = 15 -> nn \in {7, 10, 21, 24, 30, 41, 51, 85, 101}
       [] OTHER -> TRUE

\* C22: a step on a word outside the canonical instruction table only
\* advances the program counter by one instruction width, changes no register,
\* index register, timer, stack or memory, and does not fail.
C22_UnknownOpcodes ==
  (prev.op_code >= 0 /\ ~Canonical(prev.op_code)) =>
    /\ result = "Ok"
    /\ pc = (prev.at + 2) % 4096
    /\ register = prev.register
    /\ index_register = prev.index_register
    /\ delay_timer = prev.delay_timer
    /\ sound_timer = prev.sound_timer
    /\ stack = prev.stack
    /\ memory = prev.memory

\* C23: whenever a handler fails (an out-of-bounds memory address in FX55,
\* FX65, FX33 or DXYN, a stack underflow in 00EE), the registers, the index
\* register, the call stack and memory are exactly as before the handler ran.
C23_NoPartialApplication ==
  (prev.op_code >= 0 /\ result \in {"AddressOutOfBounds", "JumpOutOfBounds"}) =>
    /\ register = prev.register
    /\ index_register = prev.index_register
    /\ stack = prev.stack
    /\ memory = prev.memory

\* C24: a byte of the framebuffer 0xF00..=0xFFF changes only in a step that
\* executes DXYN or 00E0, whatever the value of the index register.
C24_FramebufferExclusive ==
  (prev.arm \notin {"none", "DXYN", "op_00E0"}) =>
    \A a \in FramebufferBytes : memory[a] = prev.memory[a]

\* C25: for a program whose first instruction is 1NNN, one step from the
\* initial state leaves the program counter equal to NNN and leaves every
\* register, the index register, both timers, the call stack and all of memory
\* unchanged.
C25_JumpFrame ==
  (Ran("op_1NNN") /\ prev2.arm = "none") =>
    /\ prev.at = 512
    /\ pc = prev.nnn
    /\ register = NewRegister /\ register = prev.register
    /\ index_register = 0
    /\ delay_timer = 0 /\ sound_timer = 0
    /\ stack = <<>>
    /\ memory = prev.memory

\* C25 witness: the first step of a program starting with 1210 has run and
\* the program counter is 0x210.
C25_Witness ==
  /\ Ran("op_1NNN") /\ prev2.arm = "none"
  /\ prev.op_code = 4624
  /\ pc = 528

\* C26: for every register value v in 0..=255 and every index I with I + 2 in
\* bounds, FX33 writes v div 100 to memory[I], (v div 10) mod 10 to
\* memory[I + 1] and v mod 10 to memory[I + 2], and changes no other memory
\* byte, no register and not the index register.
C26_BcdDecomposition ==
  (Ran("op_FX33") /\ prev.index_register + 2 < 4096) =>
    LET v  == prev.register[prev.x]
        i0 == prev.index_register
    IN /\ result = "Ok"
       /\ memory[i0] = v \div 100
       /\ memory[i0 + 1] = (v \div 10) % 10
       /\ memory[i0 + 2] = v % 10
       /\ \A a \in (0..4095) \ (i0..(i0 + 2)) : memory[a] = prev.memory[a]
       /\ register = prev.register
       /\ index_register = i0

\* C26 witness: FX33 has run on the value 234 with I = 0x300, and the bytes
\* there are 2, 3, 4.
C26_Witness ==
  /\ Ran("op_FX33") /\ prev.register[prev.x] = 234 /\ prev.index_register = 768
  /\ memory[768] = 2 /\ memory[769] = 3 /\ memory[770] = 4

\* bits hi..lo of w, bit by bit
RECURSIVE BitsOf(_, _, _)
BitsOf(w, hi, lo) ==
  IF hi < lo THEN 0 ELSE Bit(w, lo) + 2 * BitsOf(w, hi, lo + 1)

\* C27: the fetched word is memory[pc] * 256 + memory[pc + 1], and its
\* decoded fields are family = w AND 0xF000, x = bits 11..8, y = bits 7..4,
\* n = bits 3..0, nn = bits 7..0, nnn = bits 11..0, whatever the rest of the
\* machine holds.
C27_FetchDecode ==
  prev.op_code >= 0 =>
    LET w == prev.memory[prev.at] * 256 + prev.memory[prev.at + 1]
        d == Decode(w)
    IN /\ prev.op_code = w
       /\ d.instruction = BitsOf(w, 15, 12) * 4096
       /\ prev.x = d.x /\ ParseHex(Tail(prev.x)) = BitsOf(w, 11, 8)
       /\ prev.y = d.y /\ ParseHex(Tail(prev.y)) = BitsOf(w, 7, 4)
       /\ prev.n = BitsOf(w, 3, 0)
       /\ prev.nn = BitsOf(w, 7, 0)
       /\ prev.nnn = BitsOf(w, 11, 0)

\* C27 witness: the word 0x8E17 has been fetched from bytes 0x8E, 0x17 and
\* decoded to x = "VE", y = "V1", n = 7.
C27_Witness ==
  /\ prev.op_code = 36375
  /\ prev.memory[prev.at] = 142 /\ prev.memory[prev.at + 1] = 23
  /\ prev.x = RegName(14) /\ prev.y = V1 /\ prev.n = 7 /\ prev.nnn = 3607

\* the address of the i-th byte of a block transfer that began at index
TransferAddress(interp, index, i) ==
  IF interp = "CosmacVIP" THEN index + (i * (i + 1)) \div 2 ELSE index + i

\* the numbers i of the bytes of the transfer in prev that lie inside memory
InsideMemory ==
  { i \in 0..ParseHex(Tail(prev.x)) :
      TransferAddress(interpreter, prev.index_register, i) < 4096 }

\* C28: Ram::get and Ram::get_mut succeed for every address below 0x1000 and
\* return InvalidAddress with the address for every address from 0x1000 on,
\* without changing memory; a fetch with pc or pc + 1 >= 0x1000 fails with
\* InvalidAddress, no word is returned.
C28_BoundsChecked ==
  /\ prev.arm = "op_FX65" =>
       /\ result = "Ok" <=> InsideMemory = 0..ParseHex(Tail(prev.x))
       /\ result # "Ok" => result = "AddressOutOfBounds"
       /\ \A i \in InsideMemory :
            register[RegName(i)] =
              prev.memory[TransferAddress(interpreter, prev.index_register, i)]
       /\ memory = prev.memory
  /\ prev.arm = "op_FX55" =>
       /\ result = "Ok" <=> InsideMemory = 0..ParseHex(Tail(prev.x))
       /\ result # "Ok" => result = "AddressOutOfBounds"
       /\ \A i \in InsideMemory :
            memory[TransferAddress(interpreter, prev.index_register, i)] =
              prev.register[RegName(i)]
       /\ DOMAIN memory = 0..4095
       /\ \A a \in 0..4095 :
            (\A i \in InsideMemory :
               a # TransferAddress(interpreter, prev.index_register, i))
              => memory[a] = prev.memory[a]
  /\ prev.arm = "InvalidAddress" =>
       /\ result = "InvalidAddress"
       /\ prev.at >= 4095
       /\ prev.address = (IF prev.at = 4095 THEN 4096 ELSE prev.at)
       /\ memory = prev.memory
  /\ prev.op_code >= 0 => (prev.at >= 0 /\ prev.at + 1 < 4096)
  /\ \A a \in {4096, 4097, 4350} :
       /\ Ram_get(memory, a) = [res |-> "InvalidAddress", address |-> a]
       /\ Ram_get_mut(memory, a) = [res |-> "InvalidAddress", address |-> a]

\* C28 witness: an access at 0xFFD + 3 has ended a transfer with
\* AddressOutOfBounds, the program has jumped to 0xFFF, and the fetch there
\* has failed with the address 0x1000.
C28_Witness ==
  /\ prev.arm = "InvalidAddress" /\ prev.at = 4095 /\ prev.address = 4096
  /\ result = "InvalidAddress"
  /\ prev2.arm = "op_1NNN" /\ prev2.result = "AddressOutOfBounds"
  /\ index_register = 4093

\* C29: a program is rejected iff it is longer than AVAILABLE_RAM = 0xF00 -
\* 0x200 bytes, the rejection is OutOfMemory with the offered length and that
\* capacity, and an accepted program lies at 0x200.., outside the framebuffer
\* and inside memory.
C29_LoaderCapacity ==
  prev.arm = "Rom::load" =>
    LET len == Len(prev.data)
    IN /\ result = "OutOfMemory" <=> len > 3840 - 512
       /\ result # "OutOfMemory" => result = "Ok"
       /\ result = "OutOfMemory" =>
            /\ prev.loaded.rom_size = len
            /\ prev.loaded.ram_size = 3840 - 512
            /\ memory = <<>>
       /\ result = "Ok" =>
            /\ DOMAIN memory = 0..4095
            /\ 512 + len <= 3840
            /\ \A a \in 0..4095 :
                 memory[a] =
                   IF a >= 512 /\ a < 512 + len THEN prev.data[a - 512 + 1]
                   ELSE IF a < 80 THEN FONT[a + 1]
                   ELSE 0

\* C29 witness: a program of exactly 0xD00 bytes has been loaded, its last
\* byte is at 0xEFF and the framebuffer is empty.
C29_Witness ==
  /\ prev.arm = "Rom::load" /\ Len(prev.data) = 3328 /\ result = "Ok"
  /\ memory[3839] = prev.data[3328] /\ memory[3839] # 0 /\ memory[3840] = 0

\* the last step executed a conditional skip: 3XNN, 4XNN, 5XY0 or 9XY0
SkipStep ==
  /\ prev.op_code >= 0
  /\ \/ prev.op_code \div 4096 \in {3, 4}
     \/ prev.op_code \div 4096 \in {5, 9} /\ prev.n = 0

\* the condition of the skip in prev, on the registers it ran on
SkipCondition ==
  LET vx == prev.register[prev.x]
      vy == prev.register[prev.y]
  IN CASE prev.op_code \div 4096 = 3 -> vx = prev.nn
       [] prev.op_code \div 4096 = 4 -> vx # prev.nn
       [] prev.op_code \div 4096 = 5 -> vx = vy
       [] OTHER -> vx # vy

\* C30: a step executing 3XNN ends two instruction widths past the skip iff
\* Vx = NN, 4XNN iff Vx # NN, 5XY0 iff Vx = Vy, 9XY0 iff Vx # Vy, and else one
\* width past it, both modulo the memory size; registers, stack and memory
\* stay as they were.
C30_ConditionalSkips ==
  SkipStep =>
    /\ pc = (prev.at + (IF SkipCondition THEN 4 ELSE 2)) % 4096
    /\ register = prev.register
    /\ stack = prev.stack
    /\ memory = prev.memory

\* C30 witness: 9010 in the last two bytes of memory, with V0 # V1, has
\* skipped the word at 0 and left the program counter at 2.
C30_Witness ==
  /\ SkipStep /\ prev.op_code = 36880 /\ prev.at = 4094
  /\ prev.register[V0] # prev.register[V1] /\ pc = 2

\* C31: as long as no return has run on an empty stack, each return sets the
\* program counter to the address following the most recent call not yet
\* returned from, the stack holds the addresses following the calls still
\* open, oldest first, and its depth is the number of calls minus the number
\* of returns.
C31_NestedCallsLifo ==
  ~call_history.underflow =>
    /\ Len(stack) = call_history.calls - call_history.returns
    /\ stack = [i \in 1..Len(call_history.pending) |->
                  (call_history.pending[i] + 2) % 4096]
    /\ Ran("op_00EE") =>
         /\ result = "Ok"
         /\ pc = (call_history.returned_from + 2) % 4096

\* C31 witness: of three nested calls the innermost has returned, and now
\* the second has, to the address behind the second call, leaving one open.
C31_Witness ==
  /\ ~call_history.underflow
  /\ Ran("op_00EE") /\ prev2.arm = "op_00EE"
  /\ call_history.calls = 3 /\ call_history.returns = 2
  /\ Len(stack) = 1 /\ pc = call_history.returned_from + 2
  /\ pc # prev2.at + 2

\* the sixteen keys of Register::new, written out
OperandNames ==
  { <<"V", c>> : c \in {"0", "1", "2", "3", "4", "5", "6", "7",
                        "8", "9", "A", "B", "C", "D", "E", "F"} }

\* C32: the decoded x and y are among V0..VF, the hex digit parsed from x is
\* in 0..15, and no step ends with the invalid-register error or the
\* operand-parse error.
C32_OperandErrorsUnreachable ==
  /\ result \notin {"RegisterError", "HexParseError"}
  /\ prev.op_code >= 0 =>
       /\ prev.x \in OperandNames /\ prev.y \in OperandNames
       /\ prev.x \in DOMAIN prev.register /\ prev.y \in DOMAIN prev.register
       /\ ParseHex(Tail(prev.x)) \in 0..15
       /\ ParseHex(Tail(prev.x)) = (prev.op_code \div 256) % 16

\* C32 witness: FF65 has loaded all of V0..VF without an error.
C32_Witness ==
  /\ Ran("op_FX65") /\ prev.x = VF /\ ParseHex(Tail(prev.x)) = 15
  /\ result = "Ok"

\* C33: no handler arithmetic leaves its width: 5 * Vx of FX29 fits in 8 bits,
\* the address sums I + i of FX33, FX55, FX65 and DXYN and the in-place
\* I += i of CosmacVIP fit in 16 bits, and NNN + register of BNNN fits in 16
\* bits; no step ends in an overflow.
C33_ArithmeticWidth ==
  /\ result # "ArithmeticOverflow"
  /\ Ran("op_FX29") =>
       /\ 5 * prev.register[prev.x] < 256
       /\ index_register = 5 * prev.register[prev.x]
  /\ Ran("op_FX33") => prev.index_register + 2 < 65536
  /\ (Ran("op_FX55") \/ Ran("op_FX65")) => index_register < 65536
  /\ Ran("op_BNNN") =>
       prev.nnn + prev.register[IF interpreter = "CosmacVIP" THEN V0 ELSE prev.x] < 65536

\* the parts of C33 that hold: FX55, FX65 and DXYN form I + i from i = 0 up
\* and stop at the first address outside memory, and NNN + register is below
\* 0x1000 + 0x100
C33_SumsInWidth ==
  /\ (Ran("op_FX55") \/ Ran("op_FX65") \/ Ran("DXYN")) => result # "ArithmeticOverflow"
  /\ (Ran("op_FX55") \/ Ran("op_FX65")) => index_register < 65536
  /\ Ran("op_BNNN") =>
       prev.nnn + prev.register[IF interpreter = "CosmacVIP" THEN V0 ELSE prev.x] < 65536

\* the store of the program has succeeded, at the index the program set:
\* the load comes 18 steps after the store, with nothing but ANNN and 6XNN
\* in between
StoreSucceeded ==
  \A i \in 0..ParseHex(Tail(prev.x)) :
    TransferAddress(interpreter, prev.index_register, i) < 4096

\* C34: if FX55 succeeds with the index register at a, and the index register
\* is set back to a and V0..Vx are overwritten, FX65 with the same x gives
\* each of V0..Vx the value it had when FX55 ran.
C34_StoreLoadRoundTrip ==
  /\ Ran("op_FX55") =>
       \A i \in 0..15 : prev.register[RegName(i)] = StoredValue(i)
  /\ (Ran("op_FX65") /\ StoreSucceeded) =>
       /\ result = "Ok"
       /\ \A i \in 0..ParseHex(Tail(prev.x)) : register[RegName(i)] = StoredValue(i)

\* C34 witness: under CosmacVIP, V0..V5 were stored at 0x300, overwritten
\* with 0xFF and loaded back.
C34_Witness ==
  /\ Ran("op_FX65") /\ StoreSucceeded /\ interpreter = "CosmacVIP"
  /\ prev.x = RegName(5) /\ prev.index_register = 768
  /\ prev.register[RegName(5)] = 255 /\ register[RegName(5)] = StoredValue(5)
  /\ register[RegName(6)] = 255

\* C35: once FX18 has started the tone, with the sound tick being called
\* again and again and no further FX18, each tick takes one off the sound
\* timer until it is 0, the tone is eventually stopped, and from then on the
\* timer stays 0 and the tone stays off.
C35_ToneLiveness ==
  /\ [](Ran("beep") =>
          sound_timer = (IF prev.sound_timer > 0 THEN prev.sound_timer - 1 ELSE 0))
  /\ (sound = "playing") ~> (sound = "stopped" /\ sound_timer = 0)
  /\ <>[](sound = "stopped" /\ sound_timer = 0)

\* C35 witness: the tone was playing with the timer at 1; one tick took the
\* timer to 0 and the next one stopped the tone.
C35_Witness ==
  /\ Ran("beep") /\ prev.sound = "playing" /\ prev.sound_timer = 0
  /\ prev2.arm = "beep" /\ prev2.sound_timer = 1
  /\ sound = "stopped" /\ sound_timer = 0

====
